---- MODULE Spec2Model ----
(***************************************************************************)
(* Hover-breakout backtesting engine of the Trading repository.            *)
(*                                                                         *)
(* Prices are integers counted in ticks of one pip (0.0001), so sums and   *)
(* comparisons are exact.  The spread values drawn are even numbers of     *)
(* ticks, so that spread / 2 is exact.                                     *)
(* Python lists are sequences; Python index k is sequence index k + 1.     *)
(* The series drawn are those of well-formed bars (low <= open, close <=   *)
(* high) in which each bar opens at the close of the bar before it.        *)
(* One step of the model is one iteration of a function's outer loop, its  *)
(* forward scan included.                                                  *)
(***************************************************************************)
EXTENDS Integers, Sequences, FiniteSets, TLC

VARIABLES fn, data, params, i, trades, pc, scanned, reads,
          metrics, equity_curve, locals, caller, grid, combo, best, results,
          runs, stdout, files, history, previous

vars == <<fn, data, params, i, trades, pc, scanned, reads,
          metrics, equity_curve, locals, caller, grid, combo, best, results,
          runs, stdout, files, history, previous>>

\* What a program has printed and the files it has written; the runs a grid
\* search has made, with their trades and metrics, and the record of the
\* execution before this one.
effects == <<stdout, files, history, previous>>

\* The variables of the grid optimizers.
optimizer == <<caller, grid, combo, best, results, runs, effects>>

(***************************************************************************)
(* Bounds of the model.                                                    *)
(***************************************************************************)
MaxLen == 4
MaxPrice == 2
MaxLookback == 2
MaxHold == 2
MaxHover == 1
MaxTp == 2
MaxSl == 1
MaxHalfSpread == 1

\* Python's None.
None == [none |-> TRUE]

Prices == 0 .. MaxPrice

\* One CSV row: Open, High, Low, Close of a bar, low <= open, close <= high.
Rows ==
  { r \in [Open : Prices, High : Prices, Low : Prices, Close : Prices] :
      /\ r.Low <= r.Open /\ r.Open <= r.High
      /\ r.Low <= r.Close /\ r.Close <= r.High }

\* The files of n rows drawn: consecutive bars join, a bar opens at the close
\* of the bar before it.
Series(n) ==
  { r \in [1 .. n -> Rows] : \A k \in 2 .. n : r[k].Open = r[k - 1].Close }

\* load_data: the rows of the file as a dict of four lists.
load_data(rows) ==
  [open  |-> [k \in 1 .. Len(rows) |-> rows[k].Open],
   high  |-> [k \in 1 .. Len(rows) |-> rows[k].High],
   low   |-> [k \in 1 .. Len(rows) |-> rows[k].Low],
   close |-> [k \in 1 .. Len(rows) |-> rows[k].Close]]

\* The keyword arguments of one call (in HoverBreakoutOptimize.main, one
\* combination of the grid: run_backtest(data, **params)).
ParamSets ==
  [lookback : 0 .. MaxLookback, hover_range : 0 .. MaxHover, tp : 1 .. MaxTp,
   sl : 1 .. MaxSl, max_hold : 0 .. MaxHold,
   spread : {2 * h : h \in 0 .. MaxHalfSpread}]

(***************************************************************************)
(* Python built-ins used by the code.                                      *)
(***************************************************************************)
\* len(closes)
length == Len(data.close)

\* list[k] is defined for -len <= k < len; anything else is an IndexError.
InRange(k) == -length <= k /\ k < length

\* list[k], negative k counting from the end.
At(list, k) == IF k < 0 THEN list[Len(list) + k + 1] ELSE list[k + 1]

\* list[a:b] for 0 <= a: the elements a .. b-1 that exist (slices never raise).
Slice(list, a, b) ==
  LET hi == IF b < Len(list) THEN b ELSE Len(list)
  IN  IF a >= hi THEN << >> ELSE [k \in 1 .. hi - a |-> list[a + k]]

\* max(window), min(window) of a non-empty list.
Max(window) == CHOOSE m \in {window[k] : k \in DOMAIN window} :
                 \A k \in DOMAIN window : window[k] <= m
Min(window) == CHOOSE m \in {window[k] : k \in DOMAIN window} :
                 \A k \in DOMAIN window : window[k] >= m

\* range(a, b) as a set.
Range(a, b) == a .. b - 1

(***************************************************************************)
(* run_backtest (Hover_Breakout_Test.py)                                   *)
(***************************************************************************)
half_spread == params.spread \div 2

\* closes[i-lookback:i]
window(idx) == Slice(data.close, idx - params.lookback, idx)

\* max(window) - min(window) <= hover_range
Hovering(idx) == Max(window(idx)) - Min(window(idx)) <= params.hover_range

\* Variant of Breakout: a close equal to the window's max or min breaks out.
Breakout_inclusive(idx) ==
  IF At(data.close, idx) >= Max(window(idx)) THEN 1
  ELSE IF At(data.close, idx) <= Min(window(idx)) THEN -1
  ELSE 0

\* +1 breakout up, -1 breakout down, 0 the else branch (continue).
Breakout(idx) ==
  IF At(data.close, idx) > Max(window(idx)) THEN 1
  ELSE IF At(data.close, idx) < Min(window(idx)) THEN -1
  ELSE 0

\* Variant of Entry: the half spread is added whatever the direction.
Entry_spread_always_added(idx, d) ==
  LET entry_price == At(data.open, idx) + half_spread
  IN  [entry_price |-> entry_price,
       target |-> IF d = 1 THEN entry_price + params.tp ELSE entry_price - params.tp,
       stop   |-> IF d = 1 THEN entry_price - params.sl ELSE entry_price + params.sl]

\* entry_price, target and stop of the trade entered at idx in direction d.
Entry(idx, d) ==
  LET entry_price == IF d = 1 THEN At(data.open, idx) + half_spread
                     ELSE At(data.open, idx) - half_spread
  IN  [entry_price |-> entry_price,
       target |-> IF d = 1 THEN entry_price + params.tp ELSE entry_price - params.tp,
       stop   |-> IF d = 1 THEN entry_price - params.sl ELSE entry_price + params.sl]

\* for j in range(i+1, i+1+max_hold): the first bar that hits target or stop.
RECURSIVE ScanForward(_, _, _, _, _)
ScanForward(j, end, d, target, stop) ==
  IF j >= end THEN [kind |-> "none"]
  ELSE IF ~InRange(j) THEN [kind |-> "IndexError"]
  ELSE IF d = 1 THEN
    IF At(data.high, j) >= target
      THEN [kind |-> "tp", exit_price |-> target - half_spread, exit_bar |-> j]
    ELSE IF At(data.low, j) <= stop
      THEN [kind |-> "sl", exit_price |-> stop - half_spread, exit_bar |-> j]
    ELSE ScanForward(j + 1, end, d, target, stop)
  ELSE
    IF At(data.low, j) <= target
      THEN [kind |-> "tp", exit_price |-> target + half_spread, exit_bar |-> j]
    ELSE IF At(data.high, j) >= stop
      THEN [kind |-> "sl", exit_price |-> stop + half_spread, exit_bar |-> j]
    ELSE ScanForward(j + 1, end, d, target, stop)

\* Variant of Exit: the scan is range(i+2, i+1+max_hold), one bar late.
Exit_scan_one_bar_late(idx, d) ==
  LET e == Entry(idx, d)
      s == ScanForward(idx + 2, idx + 1 + params.max_hold, d, e.target, e.stop)
  IN  IF s.kind # "none" THEN s
      ELSE IF ~InRange(idx + params.max_hold) THEN [kind |-> "IndexError"]
      ELSE [kind |-> "time",
            exit_price |-> At(data.close, idx + params.max_hold) - d * half_spread,
            exit_bar |-> idx + params.max_hold]

\* Variant of Exit: the scan is range(i, i+1+max_hold), the entry bar included.
Exit_scan_from_entry_bar(idx, d) ==
  LET e == Entry(idx, d)
      s == ScanForward(idx, idx + 1 + params.max_hold, d, e.target, e.stop)
  IN  IF s.kind # "none" THEN s
      ELSE IF ~InRange(idx + params.max_hold) THEN [kind |-> "IndexError"]
      ELSE [kind |-> "time",
            exit_price |-> At(data.close, idx + params.max_hold) - d * half_spread,
            exit_bar |-> idx + params.max_hold]

\* Variant of Exit: the scan is range(i+1, i+max_hold), the bar of the
\* market exit left out.
Exit_scan_ends_one_bar_early(idx, d) ==
  LET e == Entry(idx, d)
      s == ScanForward(idx + 1, idx + params.max_hold, d, e.target, e.stop)
  IN  IF s.kind # "none" THEN s
      ELSE IF ~InRange(idx + params.max_hold) THEN [kind |-> "IndexError"]
      ELSE [kind |-> "time",
            exit_price |-> At(data.close, idx + params.max_hold) - d * half_spread,
            exit_bar |-> idx + params.max_hold]

\* The exit of the trade: the scan's hit, else the market exit after max_hold.
Exit(idx, d) ==
  LET e == Entry(idx, d)
      s == ScanForward(idx + 1, idx + 1 + params.max_hold, d, e.target, e.stop)
  IN  IF s.kind # "none" THEN s
      ELSE IF ~InRange(idx + params.max_hold) THEN [kind |-> "IndexError"]
      ELSE [kind |-> "time",
            exit_price |-> At(data.close, idx + params.max_hold) - d * half_spread,
            exit_bar |-> idx + params.max_hold]

\* The dict appended to trades.
Trade(idx, d) ==
  LET e == Entry(idx, d)
      x == Exit(idx, d)
  IN  [entry_bar |-> idx, exit_bar |-> x.exit_bar, direction |-> d,
       entry_price |-> e.entry_price, exit_price |-> x.exit_price,
       pnl |-> (x.exit_price - e.entry_price) * d]

\* The exception one iteration of the outer loop raises, "" for none.
Raises(idx) ==
  IF window(idx) = << >> THEN "ValueError"
  ELSE IF ~Hovering(idx) THEN ""
  ELSE IF ~InRange(idx) THEN "IndexError"
  ELSE IF Breakout(idx) = 0 THEN ""
  ELSE IF Exit(idx, Breakout(idx)).kind = "IndexError" THEN "IndexError"
  ELSE ""

\* The bar indices one iteration of the outer loop reads.
BarsRead(idx) ==
  Range(idx - params.lookback, idx)
    \cup (IF Hovering(idx) THEN {idx} ELSE {})
    \cup (IF Hovering(idx) /\ Breakout(idx) # 0
            THEN LET x == Exit(idx, Breakout(idx))
                 IN  Range(idx + 1, x.exit_bar + 1) \cup {x.exit_bar}
            ELSE {})

\* Variants of range_stop: one index more, and max_hold forgotten.
range_stop_one_more == length - params.max_hold + 1
range_stop_ignores_max_hold == length

\* The end of range(lookback, length - max_hold).
range_stop == length - params.max_hold

\* for i in range(lookback, length - max_hold): the loop has another index.
InLoop == pc = "loop" /\ fn = "run_backtest" /\ i < range_stop

\* if max(window) - min(window) <= hover_range is false: next index.
RB_NoHover ==
  /\ InLoop /\ window(i) # << >>
  /\ ~Hovering(i)
  /\ i' = i + 1
  /\ scanned' = Append(scanned, i)
  /\ reads' = reads \cup BarsRead(i)
  /\ UNCHANGED <<metrics, equity_curve, locals, optimizer>>
  /\ UNCHANGED <<fn, data, params, trades, pc>>

\* else: continue (close[i] inside the window's range).
RB_NoBreakout ==
  /\ InLoop /\ window(i) # << >>
  /\ Hovering(i) /\ InRange(i) /\ Breakout(i) = 0
  /\ i' = i + 1
  /\ scanned' = Append(scanned, i)
  /\ reads' = reads \cup BarsRead(i)
  /\ UNCHANGED <<metrics, equity_curve, locals, optimizer>>
  /\ UNCHANGED <<fn, data, params, trades, pc>>

\* Variant of RB_Trade: the trade is inserted at the head of the list.
RB_Trade_inserted_first ==
  /\ InLoop /\ window(i) # << >>
  /\ Hovering(i) /\ InRange(i) /\ Breakout(i) # 0
  /\ Exit(i, Breakout(i)).kind # "IndexError"
  /\ trades' = <<Trade(i, Breakout(i))>> \o trades
  /\ i' = i + 1
  /\ scanned' = Append(scanned, i)
  /\ reads' = reads \cup BarsRead(i)
  /\ UNCHANGED <<metrics, equity_curve, locals, optimizer>>
  /\ UNCHANGED <<fn, data, params, pc>>

\* Variant of RB_Trade: the scan resumes after the trade's exit bar.
RB_Trade_skips_to_exit ==
  /\ InLoop /\ window(i) # << >>
  /\ Hovering(i) /\ InRange(i) /\ Breakout(i) # 0
  /\ Exit(i, Breakout(i)).kind # "IndexError"
  /\ trades' = Append(trades, Trade(i, Breakout(i)))
  /\ i' = Trade(i, Breakout(i)).exit_bar + 1
  /\ scanned' = Append(scanned, i)
  /\ reads' = reads \cup BarsRead(i)
  /\ UNCHANGED <<metrics, equity_curve, locals, optimizer>>
  /\ UNCHANGED <<fn, data, params, pc>>

\* Variant of RB_Trade: the close of the entry bar is overwritten in the
\* frame.
RB_Trade_writes_data ==
  /\ InLoop /\ window(i) # << >>
  /\ Hovering(i) /\ InRange(i) /\ Breakout(i) # 0
  /\ Exit(i, Breakout(i)).kind # "IndexError"
  /\ trades' = Append(trades, Trade(i, Breakout(i)))
  /\ data' = [data EXCEPT !.close[i + 1] = data.open[i + 1]]
  /\ i' = i + 1
  /\ scanned' = Append(scanned, i)
  /\ reads' = reads \cup BarsRead(i)
  /\ UNCHANGED <<metrics, equity_curve, locals, optimizer>>
  /\ UNCHANGED <<fn, params, pc>>

\* A breakout: the trade is simulated and appended, then the next index.
RB_Trade ==
  /\ InLoop /\ window(i) # << >>
  /\ Hovering(i) /\ InRange(i) /\ Breakout(i) # 0
  /\ Exit(i, Breakout(i)).kind # "IndexError"
  /\ trades' = Append(trades, Trade(i, Breakout(i)))
  /\ i' = i + 1
  /\ scanned' = Append(scanned, i)
  /\ reads' = reads \cup BarsRead(i)
  /\ UNCHANGED <<metrics, equity_curve, locals, optimizer>>
  /\ UNCHANGED <<fn, data, params, pc>>

\* max() of an empty window or an index outside the lists: the call raises.
RB_Raise ==
  /\ InLoop /\ Raises(i) # ""
  /\ pc' = Raises(i)
  /\ scanned' = Append(scanned, i)
  /\ UNCHANGED <<metrics, equity_curve, locals, optimizer>>
  /\ UNCHANGED <<fn, data, params, i, trades, reads>>

\* return trades
RB_Return ==
  /\ pc = "loop" /\ fn = "run_backtest"
  /\ i >= range_stop
  /\ pc' = "returned"
  /\ UNCHANGED <<metrics, equity_curve, locals, optimizer>>
  /\ UNCHANGED <<fn, data, params, i, trades, scanned, reads>>

run_backtest == RB_NoHover \/ RB_NoBreakout \/ RB_Trade \/ RB_Raise \/ RB_Return

(***************************************************************************)
(* Specification: one call of run_backtest on any series and parameters.   *)
(***************************************************************************)
Init ==
  /\ fn = "run_backtest"
  /\ \E n \in 0 .. MaxLen : \E rows \in Series(n) : data = load_data(rows)
  /\ params \in ParamSets
  /\ i = params.lookback
  /\ trades = << >>
  /\ pc = "loop"
  /\ scanned = << >>
  /\ reads = {}
  /\ metrics = None /\ equity_curve = None /\ locals = None
  /\ caller = "" /\ grid = None /\ combo = None /\ best = None
  /\ results = None /\ runs = << >>
  /\ stdout = << >> /\ files = {} /\ history = << >> /\ previous = None

Next == run_backtest

Spec == Init /\ [][Next]_vars

(***************************************************************************)
(* backtest (hover_strategy_test.py).  The DataFrame has the default index  *)
(* 0 .. len-1; column "High" is data.high, and so on.  With the parameters *)
(* drawn every label read exists, so no KeyError is modelled.              *)
(***************************************************************************)
\* df.loc[a:b, col]: the rows labelled a .. b, both ends included.
Loc(col, a, b) == Slice(col, a, b + 1)

\* prior_high, prior_low: max and min over the lookback rows, NaN when empty.
prior(idx) ==
  LET hs == Loc(data.high, idx - params.lookback, idx - 1)
      ls == Loc(data.low, idx - params.lookback, idx - 1)
  IN  IF hs = << >> THEN [nan |-> TRUE]
      ELSE [nan |-> FALSE, prior_high |-> Max(hs), prior_low |-> Min(ls)]

\* if prior_high - prior_low > hover_range: continue (False on NaN).
BT_RangeTooWide(idx) ==
  /\ ~prior(idx).nan
  /\ prior(idx).prior_high - prior(idx).prior_low > params.hover_range

\* direction: 1, -1, or 0 for the else branch; comparisons with NaN are False.
BT_direction(idx) ==
  IF prior(idx).nan THEN 0
  ELSE IF At(data.close, idx) > prior(idx).prior_high THEN 1
  ELSE IF At(data.close, idx) < prior(idx).prior_low THEN -1
  ELSE 0

\* entry, target, stop
BT_Entry(idx, d) ==
  LET entry == At(data.open, idx) + half_spread * d
  IN  [entry |-> entry, target |-> entry + params.tp * d,
       stop |-> entry - params.sl * d]

\* for j in range(i + 1, i + max_hold + 1)
RECURSIVE BT_Scan(_, _, _, _, _)
BT_Scan(j, end, d, target, stop) ==
  IF j >= end THEN [kind |-> "none"]
  ELSE IF d = 1 THEN
    IF At(data.high, j) >= target
      THEN [kind |-> "tp", exit_price |-> target - half_spread, exit_bar |-> j]
    ELSE IF At(data.low, j) <= stop
      THEN [kind |-> "sl", exit_price |-> stop - half_spread, exit_bar |-> j]
    ELSE BT_Scan(j + 1, end, d, target, stop)
  ELSE
    IF At(data.low, j) <= target
      THEN [kind |-> "tp", exit_price |-> target + half_spread, exit_bar |-> j]
    ELSE IF At(data.high, j) >= stop
      THEN [kind |-> "sl", exit_price |-> stop + half_spread, exit_bar |-> j]
    ELSE BT_Scan(j + 1, end, d, target, stop)

\* The dict appended to trades.
BT_Trade_dict(idx, d) ==
  LET e == BT_Entry(idx, d)
      s == BT_Scan(idx + 1, idx + params.max_hold + 1, d, e.target, e.stop)
      x == IF s.kind # "none" THEN s
           ELSE [kind |-> "time",
                 exit_price |-> At(data.close, idx + params.max_hold)
                                  - half_spread * d,
                 exit_bar |-> idx + params.max_hold]
  IN  [entry_bar |-> idx, exit_bar |-> x.exit_bar, direction |-> d,
       entry_price |-> e.entry, exit_price |-> x.exit_price,
       pnl |-> (x.exit_price - e.entry) * d]

\* for i in range(lookback, len(df) - max_hold)
BT_InLoop == pc = "loop" /\ fn = "backtest" /\ i < length - params.max_hold

BT_NoHover ==
  /\ BT_InLoop /\ BT_RangeTooWide(i)
  /\ i' = i + 1
  /\ scanned' = Append(scanned, i)
  /\ UNCHANGED <<metrics, equity_curve, locals, optimizer>>
  /\ UNCHANGED <<fn, data, params, trades, pc, reads>>

BT_NoBreakout ==
  /\ BT_InLoop /\ ~BT_RangeTooWide(i) /\ BT_direction(i) = 0
  /\ i' = i + 1
  /\ scanned' = Append(scanned, i)
  /\ UNCHANGED <<metrics, equity_curve, locals, optimizer>>
  /\ UNCHANGED <<fn, data, params, trades, pc, reads>>

BT_Trade ==
  /\ BT_InLoop /\ ~BT_RangeTooWide(i) /\ BT_direction(i) # 0
  /\ trades' = Append(trades, BT_Trade_dict(i, BT_direction(i)))
  /\ i' = i + 1
  /\ scanned' = Append(scanned, i)
  /\ UNCHANGED <<metrics, equity_curve, locals, optimizer>>
  /\ UNCHANGED <<fn, data, params, pc, reads>>

BT_Return ==
  /\ pc = "loop" /\ fn = "backtest"
  /\ i >= length - params.max_hold
  /\ pc' = "returned"
  /\ UNCHANGED <<metrics, equity_curve, locals, optimizer>>
  /\ UNCHANGED <<fn, data, params, i, trades, scanned, reads>>

backtest == BT_NoHover \/ BT_NoBreakout \/ BT_Trade \/ BT_Return

(***************************************************************************)
(* hover_breakout_strategy (hover_breakout_backtester.py).  The frame is   *)
(* sorted by Time; the Time of row k is modelled as k.  Distances are in   *)
(* pips.  With the parameters drawn every position read exists.            *)
(***************************************************************************)
\* pip = 0.0001, one tick.
pip == 1

\* The keyword arguments of one call.
HBS_ParamSets ==
  [back_candles : 0 .. MaxLookback, range_pips : 0 .. MaxHover,
   tp_pips : 1 .. MaxTp, sl_pips : 1 .. MaxSl, future_candles : 0 .. MaxHold,
   spread : {2 * h : h \in 0 .. MaxHalfSpread}]

\* window = df.iloc[idx - back_candles:idx]; its High.max() and Low.min().
HBS_window(idx) ==
  LET hs == Slice(data.high, idx - params.back_candles, idx)
      ls == Slice(data.low, idx - params.back_candles, idx)
  IN  IF hs = << >> THEN [nan |-> TRUE]
      ELSE [nan |-> FALSE, range_high |-> Max(hs), range_low |-> Min(ls)]

\* (window['High'].max() - window['Low'].min()) <= range_pips * pip
HBS_InRange(idx) ==
  /\ ~HBS_window(idx).nan
  /\ HBS_window(idx).range_high - HBS_window(idx).range_low
       <= params.range_pips * pip

HBS_direction(idx) ==
  IF At(data.close, idx) > HBS_window(idx).range_high THEN 1
  ELSE IF At(data.close, idx) < HBS_window(idx).range_low THEN -1
  ELSE 0

\* for j in range(1, future_candles + 1)
RECURSIVE HBS_Scan(_, _, _, _, _)
HBS_Scan(idx, j, d, tp_price, sl_price) ==
  IF j >= params.future_candles + 1 THEN [status |-> "partial"]
  ELSE IF d = 1 THEN
    IF At(data.high, idx + j) >= tp_price
      THEN [status |-> "tp", close_price |-> tp_price, close_time |-> idx + j]
    ELSE IF At(data.low, idx + j) <= sl_price
      THEN [status |-> "sl", close_price |-> sl_price, close_time |-> idx + j]
    ELSE HBS_Scan(idx, j + 1, d, tp_price, sl_price)
  ELSE
    IF At(data.low, idx + j) <= tp_price
      THEN [status |-> "tp", close_price |-> tp_price, close_time |-> idx + j]
    ELSE IF At(data.high, idx + j) >= sl_price
      THEN [status |-> "sl", close_price |-> sl_price, close_time |-> idx + j]
    ELSE HBS_Scan(idx, j + 1, d, tp_price, sl_price)

\* The dict appended to trades.
HBS_Trade_dict(idx, d) ==
  LET entry_price == At(data.close, idx) + d * (params.spread \div 2)
      tp_price == entry_price + d * params.tp_pips * pip
      sl_price == entry_price - d * params.sl_pips * pip
      s == HBS_Scan(idx, 1, d, tp_price, sl_price)
      x == IF s.status # "partial" THEN s
           ELSE [status |-> "partial",
                 close_price |-> At(data.close, idx + params.future_candles)
                                   - d * (params.spread \div 2),
                 close_time |-> idx + params.future_candles]
  IN  [Time_Open |-> idx, Open_Price |-> entry_price,
       Time_Close |-> x.close_time, Close_Price |-> x.close_price,
       Pip_PnL |-> ((x.close_price - entry_price) * d) \div pip,
       Status |-> x.status, SL |-> sl_price, TP |-> tp_price]

\* for idx in range(back_candles, len(df) - future_candles)
HBS_InLoop ==
  pc = "loop" /\ fn = "hover_breakout_strategy"
    /\ i < length - params.future_candles

HBS_NoHover ==
  /\ HBS_InLoop /\ ~HBS_InRange(i)
  /\ i' = i + 1
  /\ scanned' = Append(scanned, i)
  /\ UNCHANGED <<metrics, equity_curve, locals, optimizer>>
  /\ UNCHANGED <<fn, data, params, trades, pc, reads>>

HBS_NoBreakout ==
  /\ HBS_InLoop /\ HBS_InRange(i) /\ HBS_direction(i) = 0
  /\ i' = i + 1
  /\ scanned' = Append(scanned, i)
  /\ UNCHANGED <<metrics, equity_curve, locals, optimizer>>
  /\ UNCHANGED <<fn, data, params, trades, pc, reads>>

HBS_Trade ==
  /\ HBS_InLoop /\ HBS_InRange(i) /\ HBS_direction(i) # 0
  /\ trades' = Append(trades, HBS_Trade_dict(i, HBS_direction(i)))
  /\ i' = i + 1
  /\ scanned' = Append(scanned, i)
  /\ UNCHANGED <<metrics, equity_curve, locals, optimizer>>
  /\ UNCHANGED <<fn, data, params, pc, reads>>

HBS_Return ==
  /\ pc = "loop" /\ fn = "hover_breakout_strategy"
  /\ i >= length - params.future_candles
  /\ pc' = "returned"
  /\ UNCHANGED <<metrics, equity_curve, locals, optimizer>>
  /\ UNCHANGED <<fn, data, params, i, trades, scanned, reads>>

hover_breakout_strategy ==
  HBS_NoHover \/ HBS_NoBreakout \/ HBS_Trade \/ HBS_Return

(***************************************************************************)
(* Specification of the three variants of the strategy, on shorter series. *)
(***************************************************************************)
VariantLen == 3

InitVariants ==
  /\ fn \in {"run_backtest", "backtest", "hover_breakout_strategy"}
  /\ \E n \in 0 .. VariantLen : \E rows \in Series(n) : data = load_data(rows)
  /\ params \in (IF fn = "hover_breakout_strategy" THEN HBS_ParamSets
                 ELSE ParamSets)
  /\ i = (IF fn = "hover_breakout_strategy" THEN params.back_candles
          ELSE params.lookback)
  /\ trades = << >>
  /\ pc = "loop"
  /\ scanned = << >>
  /\ reads = {}
  /\ metrics = None /\ equity_curve = None /\ locals = None
  /\ caller = "" /\ grid = None /\ combo = None /\ best = None
  /\ results = None /\ runs = << >>
  /\ stdout = << >> /\ files = {} /\ history = << >> /\ previous = None

NextVariants == run_backtest \/ backtest \/ hover_breakout_strategy

SpecVariants == InitVariants /\ [][NextVariants]_vars

(***************************************************************************)
(* Vocabulary of the properties, stated on the price lists themselves.     *)
(***************************************************************************)
open_(k) == data.open[k + 1]
high_(k) == data.high[k + 1]
low_(k) == data.low[k + 1]
close_(k) == data.close[k + 1]

SetMax(S) == CHOOSE m \in S : \A x \in S : x <= m
SetMin(S) == CHOOSE m \in S : \A x \in S : m <= x

\* The closes of the lookback bars before bar k.
PriorCloses(k) == {close_(n) : n \in k - params.lookback .. k - 1}

\* The lookback bars before bar k stay within hover_range, close to close.
Hover(k) == SetMax(PriorCloses(k)) - SetMin(PriorCloses(k)) <= params.hover_range

\* The positions in trades of the trades entered at bar k in direction d.
Entered(k, d) ==
  {n \in 1 .. Len(trades) : trades[n].entry_bar = k /\ trades[n].direction = d}

\* Target and stop of trade t, from its entry price.
TargetOf(t) == t.entry_price + t.direction * params.tp
StopOf(t) == t.entry_price - t.direction * params.sl

HitsTarget(t, j) ==
  IF t.direction = 1 THEN high_(j) >= TargetOf(t) ELSE low_(j) <= TargetOf(t)
HitsStop(t, j) ==
  IF t.direction = 1 THEN low_(j) <= StopOf(t) ELSE high_(j) >= StopOf(t)

\* The bars of the forward scan of trade t that breach its target or stop.
Breaching(t) ==
  {j \in t.entry_bar + 1 .. t.entry_bar + params.max_hold :
     HitsTarget(t, j) \/ HitsStop(t, j)}

Running == pc \in {"loop", "returned"}

\* The bars of the forward scan of a hover_breakout_strategy trade t that
\* breach its TP or SL.
HBS_HitsTP(t, j) ==
  IF t.TP > t.Open_Price THEN high_(j) >= t.TP ELSE low_(j) <= t.TP
HBS_HitsSL(t, j) ==
  IF t.TP > t.Open_Price THEN low_(j) <= t.SL ELSE high_(j) >= t.SL
HBS_Breaching(t) ==
  {j \in t.Time_Open + 1 .. t.Time_Open + params.future_candles :
     HBS_HitsTP(t, j) \/ HBS_HitsSL(t, j)}

\* C1 (as claimed): in run_backtest, backtest and hover_breakout_strategy,
\* when the first bar of the forward scan that breaches anything breaches
\* both the stop and the target, the trade exits at the stop-loss price.
C1_StopLossFirstOnSameBar ==
  \A n \in 1 .. Len(trades) :
    LET t == trades[n]
    IN  IF fn = "hover_breakout_strategy"
          THEN (HBS_Breaching(t) # {}
                  /\ HBS_HitsTP(t, SetMin(HBS_Breaching(t)))
                  /\ HBS_HitsSL(t, SetMin(HBS_Breaching(t))))
                 => (t.Status = "sl" /\ t.Close_Price = t.SL)
          ELSE (Breaching(t) # {}
                  /\ HitsTarget(t, SetMin(Breaching(t)))
                  /\ HitsStop(t, SetMin(Breaching(t))))
                 => 2 * t.exit_price = 2 * StopOf(t) - t.direction * params.spread

\* C2: with lookback >= 1, a trade is emitted at a scanned index exactly when
\* the window of closes hovers and close[i] is strictly above its max (long)
\* or strictly below its min (short); equality gives no trade.
C2_TradeIffStrictBreakout ==
  (params.lookback >= 1 /\ Running) =>
    \A n \in 1 .. Len(scanned) :
      LET k == scanned[n]
      IN  /\ Entered(k, 1) # {} <=>
               (Hover(k) /\ close_(k) > SetMax(PriorCloses(k)))
          /\ Entered(k, -1) # {} <=>
               (Hover(k) /\ close_(k) < SetMin(PriorCloses(k)))
          /\ Cardinality(Entered(k, 1) \cup Entered(k, -1)) <= 1

\* C2 witness: a run with valid parameters has emitted a long trade and has
\* passed, tradeless, an index whose close equals the hovering window's max.
C2_Witness ==
  /\ params.lookback >= 1 /\ params.max_hold >= 1 /\ Running
  /\ \E n \in 1 .. Len(trades) : trades[n].direction = 1
  /\ \E n \in 1 .. Len(scanned) :
       /\ Hover(scanned[n])
       /\ close_(scanned[n]) = SetMax(PriorCloses(scanned[n]))
       /\ Entered(scanned[n], 1) \cup Entered(scanned[n], -1) = {}

\* C3: with lookback >= 1 and max_hold >= 1 the indices examined are
\* lookback .. len - max_hold - 1, each once and ascending, every bar index
\* read lies in 0 .. len - 1, and nothing is raised.
C3_ScanRangeInBounds ==
  (params.lookback >= 1 /\ params.max_hold >= 1) =>
    /\ Running
    /\ Len(scanned) = i - params.lookback
    /\ \A n \in 1 .. Len(scanned) : scanned[n] = params.lookback + n - 1
    /\ \A n \in 1 .. Len(scanned) : scanned[n] <= length - params.max_hold - 1
    /\ pc = "returned" =>
         \A k \in params.lookback .. length - params.max_hold - 1 :
           \E n \in 1 .. Len(scanned) : scanned[n] = k
    /\ reads \subseteq 0 .. length - 1

\* C3 witness: a returned run that examined two indices and read the last bar.
C3_Witness ==
  /\ params.lookback >= 1 /\ params.max_hold >= 1 /\ pc = "returned"
  /\ Len(scanned) = 2
  /\ length - 1 \in reads /\ 0 \in reads

\* C4: a trade exits at the earliest bar of i+1 .. i+max_hold that breaches
\* its target or stop; with no such bar it exits at bar i+max_hold at
\* close[i+max_hold] - direction * spread/2.
C4_EarliestBreachOrTimeExit ==
  \A n \in 1 .. Len(trades) :
    LET t == trades[n]
    IN  IF Breaching(t) # {}
          THEN t.exit_bar = SetMin(Breaching(t))
          ELSE /\ t.exit_bar = t.entry_bar + params.max_hold
               /\ 2 * t.exit_price =
                    2 * close_(t.entry_bar + params.max_hold)
                      - t.direction * params.spread

\* C4 witness: with max_hold = 2, a trade whose first scanned bar breached
\* nothing exited on the second, which did.
C4_Witness ==
  /\ params.max_hold = 2
  /\ \E n \in 1 .. Len(trades) :
       /\ Breaching(trades[n]) = {trades[n].entry_bar + 2}
       /\ trades[n].exit_bar = trades[n].entry_bar + 2

\* C5: with max_hold >= 1 every trade has exit_bar > entry_bar and
\* exit_bar - entry_bar <= max_hold.
C5_ExitAfterEntryWithinHold ==
  params.max_hold >= 1 =>
    \A n \in 1 .. Len(trades) :
      /\ trades[n].exit_bar > trades[n].entry_bar
      /\ trades[n].exit_bar - trades[n].entry_bar <= params.max_hold

\* C5 witness: a trade held for the whole of max_hold = 2 bars, no bar of
\* its scan breaching anything.
C5_Witness ==
  /\ params.max_hold = 2
  /\ \E n \in 1 .. Len(trades) :
       /\ Breaching(trades[n]) = {}
       /\ trades[n].exit_bar = trades[n].entry_bar + 2

\* C6: the trade list is ordered by strictly ascending entry_bar.
C6_EntryBarsStrictlyAscending ==
  \A m, n \in 1 .. Len(trades) :
    m < n => trades[m].entry_bar < trades[n].entry_bar

\* C6 witness: a returned list of two trades.
C6_Witness ==
  /\ pc = "returned" /\ params.max_hold >= 1 /\ Len(trades) = 2

\* C7: a trade at index i in direction d has entry_price = open[i] + d*spread/2,
\* target = entry_price + d*tp, stop = entry_price - d*sl and
\* pnl = (exit_price - entry_price) * d.
C7_EntryTargetStopPnl ==
  \A n \in 1 .. Len(trades) :
    LET t == trades[n]
        e == Entry(t.entry_bar, t.direction)
    IN  /\ 2 * t.entry_price = 2 * open_(t.entry_bar) + t.direction * params.spread
        /\ e.entry_price = t.entry_price
        /\ e.target = t.entry_price + t.direction * params.tp
        /\ e.stop = t.entry_price - t.direction * params.sl
        /\ t.pnl = (t.exit_price - t.entry_price) * t.direction

\* C7 witness: a short trade with a spread, tp # sl and a loss.
C7_Witness ==
  \E n \in 1 .. Len(trades) :
    /\ trades[n].direction = -1 /\ params.spread > 0 /\ params.tp # params.sl
    /\ trades[n].pnl < 0

\* C8: a series of at most lookback + max_hold bars, the empty one included,
\* gives an empty trade list and raises nothing.
C8_ShortSeriesNoTrades ==
  length <= params.lookback + params.max_hold =>
    Running /\ trades = << >> /\ scanned = << >>

\* C8 witness: a call on exactly lookback + max_hold >= 1 bars has returned.
C8_Witness ==
  /\ pc = "returned" /\ length >= 1
  /\ length = params.lookback + params.max_hold

\* C9 (as claimed): a call with a non-positive lookback or max_hold is
\* rejected before any trade is produced; with max_hold = 0 no trade list
\* containing trades is returned.
C9_InvalidParamsProduceNoTrade ==
  (params.lookback <= 0 \/ params.max_hold <= 0) => trades = << >>

\* C10 (as claimed): every trade's entry_bar is greater than the previous
\* trade's exit_bar, the scan resuming after the exit bar.
C10_NoOverlap ==
  \A n \in 1 .. Len(trades) - 1 :
    trades[n + 1].entry_bar > trades[n].exit_bar

\* C10 (amended): the step that opens a trade at index i appends that trade
\* and resumes the scan at i + 1, whatever the trade's exit bar.
C10_ScanResumesAtNextIndex ==
  [][Len(trades') > Len(trades) =>
       /\ trades' = Append(trades, trades'[Len(trades')])
       /\ trades'[Len(trades')].entry_bar = i
       /\ i' = i + 1]_vars

\* C10 witness: with valid parameters, a trade entered on or before the
\* exit bar of the trade before it.
C10_Witness ==
  /\ params.lookback >= 1 /\ params.max_hold >= 1
  /\ \E n \in 1 .. Len(trades) - 1 :
       /\ trades[n + 1].entry_bar <= trades[n].exit_bar
       /\ trades[n + 1].entry_bar = trades[n].entry_bar + 1

(***************************************************************************)
(* The metric functions.  A pnl is a whole number of ticks.  A quotient is *)
(* kept as an exact fraction [n, d] in lowest terms with d > 0, and every  *)
(* float of the functions is such a fraction.  A division by zero gives    *)
(* the exception instead of a number, and an operation on an exception     *)
(* gives that exception: the statement is not reached.                     *)
(***************************************************************************)
MaxPnl == 2
MaxTrades == 3
MaxBalance == 2
MaxStake == 2

\* initial_equity=10000, starting_balance=10000 and the 10000 main passes.
default_balance == 10000

Abs(x) == IF x < 0 THEN -x ELSE x

RECURSIVE GCD(_, _)
GCD(a, b) == IF b = 0 THEN a ELSE GCD(b, a % b)

Frac(n, d) ==
  LET g == GCD(Abs(n), Abs(d))
      s == IF d < 0 THEN -1 ELSE 1
  IN  [n |-> (s * n) \div g, d |-> (s * d) \div g]

\* An int where a float is computed with it.
Num(x) == Frac(x, 1)

ZeroDivisionError == [raised |-> "ZeroDivisionError"]
Raised(x) == "raised" \in DOMAIN x

Add(x, y) ==
  IF Raised(x) THEN x ELSE IF Raised(y) THEN y
  ELSE Frac(x.n * y.d + y.n * x.d, x.d * y.d)
Sub(x, y) ==
  IF Raised(x) THEN x ELSE IF Raised(y) THEN y
  ELSE Frac(x.n * y.d - y.n * x.d, x.d * y.d)
Mul(x, y) ==
  IF Raised(x) THEN x ELSE IF Raised(y) THEN y
  ELSE Frac(x.n * y.n, x.d * y.d)
\* x / y
Div(x, y) ==
  IF Raised(x) THEN x ELSE IF Raised(y) THEN y
  ELSE IF y.n = 0 THEN ZeroDivisionError
  ELSE Frac(x.n * y.d, x.d * y.n)

\* The truth value of a number in "A if x else B": any number but zero.
Truthy(x) == Raised(x) \/ x.n # 0

\* sum(list) of ints.
RECURSIVE sum(_)
sum(list) == IF list = << >> THEN 0 ELSE Head(list) + sum(Tail(list))

\* round(x, 2): the nearest hundredth, a tie going to the even one.
round2(x) ==
  LET s == 100 * x.n
      q == s \div x.d
      r == s - q * x.d
  IN  IF 2 * r < x.d THEN Frac(q, 100)
      ELSE IF 2 * r > x.d THEN Frac(q + 1, 100)
      ELSE IF q % 2 = 0 THEN Frac(q, 100) ELSE Frac(q + 1, 100)

\* The trade lists given to the metric functions: only 'pnl' is read.
Pnls == -MaxPnl .. MaxPnl
TradeLists ==
  UNION {[1 .. n -> [pnl : Pnls]] : n \in 0 .. MaxTrades}

\* The starting balances and the stake fractions given.
Balances == (0 .. MaxBalance) \cup {default_balance}
Fractions == {Frac(k, 2) : k \in -MaxStake .. MaxStake}

(***************************************************************************)
(* compute_metrics (Hover_Breakout_Test.py).                               *)
(***************************************************************************)
\* pnls = [t['pnl'] for t in trades]
CM_pnls(trade_list) == [k \in 1 .. Len(trade_list) |-> trade_list[k].pnl]

\* wins = sum(1 for x in pnls if x > 0)
CM_wins(pnls) == Len(SelectSeq(pnls, LAMBDA x : x > 0))

\* Variant of CM_losses: a pnl of zero is not counted.
CM_losses_zero_excluded(pnls) == Len(SelectSeq(pnls, LAMBDA x : x < 0))

\* losses = sum(1 for x in pnls if x <= 0)
CM_losses(pnls) == Len(SelectSeq(pnls, LAMBDA x : x <= 0))

\* win_rate = wins / total_trades if total_trades else 0
CM_win_rate(wins, total_trades) ==
  IF total_trades # 0 THEN Div(Num(wins), Num(total_trades)) ELSE Num(0)

\* Variant of CM_drawdown: the last drawdown is kept, not the largest.
RECURSIVE CM_drawdown_last(_, _, _, _)
CM_drawdown_last(pnls, equity, peak, max_dd) ==
  IF pnls = << >> THEN max_dd
  ELSE LET equity2 == equity + Head(pnls)
           peak2 == IF equity2 > peak THEN equity2 ELSE peak
       IN  CM_drawdown_last(Tail(pnls), equity2, peak2, peak2 - equity2)

\* for x in pnls: equity += x; the peak and the drawdown follow.
RECURSIVE CM_drawdown(_, _, _, _)
CM_drawdown(pnls, equity, peak, max_dd) ==
  IF pnls = << >> THEN max_dd
  ELSE LET equity2 == equity + Head(pnls)
           peak2 == IF equity2 > peak THEN equity2 ELSE peak
           dd == peak2 - equity2
       IN  CM_drawdown(Tail(pnls), equity2, peak2,
                       IF dd > max_dd THEN dd ELSE max_dd)

\* avg_win = sum(x for x in pnls if x > 0) / wins if wins else 0
CM_avg_win(pnls, wins) ==
  IF wins # 0
  THEN Div(Num(sum(SelectSeq(pnls, LAMBDA x : x > 0))), Num(wins))
  ELSE Num(0)

\* avg_loss = -sum(x for x in pnls if x <= 0) / losses if losses else 0
CM_avg_loss(pnls, losses) ==
  IF losses # 0
  THEN Div(Num(-sum(SelectSeq(pnls, LAMBDA x : x <= 0))), Num(losses))
  ELSE Num(0)

\* Variant of CM_rr: the quotient is taken whatever avg_loss is.
CM_rr_unguarded(avg_win, avg_loss) == Div(avg_win, avg_loss)

\* rr = avg_win / avg_loss if avg_loss else 0
CM_rr(avg_win, avg_loss) ==
  IF Truthy(avg_loss) THEN Div(avg_win, avg_loss) ELSE Num(0)

\* Variant of CM_expectancy: the average loss is weighted by the win rate.
CM_expectancy_loss_by_win_rate(win_rate, avg_win, avg_loss) ==
  Sub(Mul(win_rate, avg_win), Mul(win_rate, avg_loss))

\* expectancy = (win_rate * avg_win - (1 - win_rate) * avg_loss)
CM_expectancy(win_rate, avg_win, avg_loss) ==
  Sub(Mul(win_rate, avg_win), Mul(Sub(Num(1), win_rate), avg_loss))

\* Variant of CM_kelly: a risk-reward of zero is taken as one.
CM_kelly_rr_defaults_to_one(win_rate, rr) ==
  IF Truthy(rr) THEN Sub(win_rate, Div(Sub(Num(1), win_rate), rr))
  ELSE Sub(win_rate, Sub(Num(1), win_rate))

\* Variant of CM_kelly: the losing share is multiplied by the risk-reward.
CM_kelly_times_rr(win_rate, rr) ==
  IF Truthy(rr) THEN Sub(win_rate, Mul(Sub(Num(1), win_rate), rr))
  ELSE Num(0)

\* Variant of CM_kelly: without a risk-reward the win rate is staked.
CM_kelly_falls_back_to_win_rate(win_rate, rr) ==
  IF Truthy(rr) THEN Sub(win_rate, Div(Sub(Num(1), win_rate), rr))
  ELSE win_rate

\* kelly = win_rate - (1 - win_rate) / rr if rr else 0
CM_kelly(win_rate, rr) ==
  IF Truthy(rr) THEN Sub(win_rate, Div(Sub(Num(1), win_rate), rr))
  ELSE Num(0)

\* The local variables of compute_metrics at its return statement.
CM_locals(trade_list, initial_equity) ==
  LET pnls == CM_pnls(trade_list)
      total_trades == Len(pnls)
      wins == CM_wins(pnls)
      losses == CM_losses(pnls)
      win_rate == CM_win_rate(wins, total_trades)
      avg_win == CM_avg_win(pnls, wins)
      avg_loss == CM_avg_loss(pnls, losses)
      rr == CM_rr(avg_win, avg_loss)
  IN  [pnls |-> pnls, total_trades |-> total_trades, wins |-> wins,
       losses |-> losses, win_rate |-> win_rate, net_profit |-> sum(pnls),
       max_dd |-> CM_drawdown(pnls, initial_equity, initial_equity, 0),
       avg_win |-> avg_win, avg_loss |-> avg_loss, rr |-> rr,
       expectancy |-> CM_expectancy(win_rate, avg_win, avg_loss),
       kelly |-> CM_kelly(win_rate, rr)]

\* The exception a statement of the function raised, if one did.
RaisedIn(l) ==
  IF Raised(l.win_rate) THEN l.win_rate
  ELSE IF Raised(l.avg_win) THEN l.avg_win
  ELSE IF Raised(l.avg_loss) THEN l.avg_loss
  ELSE IF Raised(l.rr) THEN l.rr
  ELSE IF Raised(l.expectancy) THEN l.expectancy
  ELSE IF Raised(l.kelly) THEN l.kelly
  ELSE None

\* return {'total_trades': total_trades, ..., 'kelly': kelly}
ReturnDict(l) ==
  IF Raised(RaisedIn(l)) THEN RaisedIn(l)
  ELSE [total_trades |-> l.total_trades, wins |-> l.wins,
        losses |-> l.losses, win_rate |-> l.win_rate,
        net_profit |-> l.net_profit, max_drawdown |-> l.max_dd,
        expectancy |-> l.expectancy, kelly |-> l.kelly]

compute_metrics(trade_list, initial_equity) ==
  ReturnDict(CM_locals(trade_list, initial_equity))

(***************************************************************************)
(* compute_metrics (hover_strategy_test.py) and compute_metrics            *)
(* (strategy_tester.py), the same statements in both files.                *)
(***************************************************************************)
\* for p in pnls: equity += p; peak = max(peak, equity);
\* max_dd = max(max_dd, peak - equity)
RECURSIVE HST_drawdown(_, _, _, _)
HST_drawdown(pnls, equity, peak, max_dd) ==
  IF pnls = << >> THEN max_dd
  ELSE LET equity2 == equity + Head(pnls)
           peak2 == IF equity2 > peak THEN equity2 ELSE peak
       IN  HST_drawdown(Tail(pnls), equity2, peak2,
                        IF peak2 - equity2 > max_dd THEN peak2 - equity2
                        ELSE max_dd)

HST_locals(trade_list, initial_balance) ==
  LET pnls == CM_pnls(trade_list)
      total == Len(pnls)
      wins == Len(SelectSeq(pnls, LAMBDA p : p > 0))
      losses == total - wins
      win_rate == IF total # 0 THEN Div(Num(wins), Num(total)) ELSE Num(0)
      avg_win == IF wins # 0
                 THEN Div(Num(sum(SelectSeq(pnls, LAMBDA p : p > 0))),
                          Num(wins))
                 ELSE Num(0)
      avg_loss == IF losses # 0
                  THEN Div(Num(-sum(SelectSeq(pnls, LAMBDA p : p <= 0))),
                           Num(losses))
                  ELSE Num(0)
      rr == IF Truthy(avg_loss) THEN Div(avg_win, avg_loss) ELSE Num(0)
  IN  [pnls |-> pnls, total_trades |-> total, wins |-> wins,
       losses |-> losses, win_rate |-> win_rate, net_profit |-> sum(pnls),
       max_dd |-> HST_drawdown(pnls, initial_balance, initial_balance, 0),
       avg_win |-> avg_win, avg_loss |-> avg_loss, rr |-> rr,
       expectancy |->
         Sub(Mul(win_rate, avg_win), Mul(Sub(Num(1), win_rate), avg_loss)),
       kelly |->
         IF Truthy(rr) THEN Sub(win_rate, Div(Sub(Num(1), win_rate), rr))
         ELSE Num(0)]

HST_compute_metrics(trade_list, initial_balance) ==
  ReturnDict(HST_locals(trade_list, initial_balance))

ST_locals(trade_list, initial_balance) ==
  HST_locals(trade_list, initial_balance)

ST_compute_metrics(trade_list, initial_balance) ==
  ReturnDict(ST_locals(trade_list, initial_balance))

(***************************************************************************)
(* analyze_trades (strategy_test.py).  Its trades are the results          *)
(* themselves: the trade k of the list stands for the float trades[k].pnl. *)
(***************************************************************************)
analyze_trades(trade_list) ==
  LET t == CM_pnls(trade_list)
      wins == SelectSeq(t, LAMBDA x : x > 0)
      losses == SelectSeq(t, LAMBDA x : x < 0)
      total == Len(wins) + Len(losses)
      win_rate == IF total # 0 THEN Div(Num(Len(wins)), Num(total))
                  ELSE Num(0)
      avg_win == IF wins # << >> THEN Div(Num(sum(wins)), Num(Len(wins)))
                 ELSE Num(0)
      avg_loss == IF losses # << >>
                  THEN Div(Num(Abs(sum(losses))), Num(Len(losses)))
                  ELSE Num(0)
      r == IF Truthy(avg_loss) THEN Div(avg_win, avg_loss) ELSE Num(0)
      \* for t in trades: cum += t; peak = max(peak, cum);
      \* max_dd = min(max_dd, cum - peak)
      RECURSIVE drawdown(_, _, _, _)
      drawdown(rest, cum, peak, max_dd) ==
        IF rest = << >> THEN max_dd
        ELSE LET cum2 == cum + Head(rest)
                 peak2 == IF cum2 > peak THEN cum2 ELSE peak
             IN  drawdown(Tail(rest), cum2, peak2,
                          IF cum2 - peak2 < max_dd THEN cum2 - peak2
                          ELSE max_dd)
  IN  [wins |-> Len(wins), losses |-> Len(losses), win_rate |-> win_rate,
       avg_win |-> avg_win, avg_loss |-> avg_loss, risk_reward |-> r,
       max_drawdown |-> drawdown(t, 0, 0, 0),
       expectancy |->
         Sub(Mul(win_rate, avg_win), Mul(Sub(Num(1), win_rate), avg_loss)),
       kelly |->
         IF Truthy(r) THEN Sub(win_rate, Div(Sub(Num(1), win_rate), r))
         ELSE Num(0)]

(***************************************************************************)
(* The equity simulators.  A curve is the list of the balances, fractions. *)
(***************************************************************************)
\* Variant of SAG_loop: the stake is taken from the starting balance.
RECURSIVE SAG_loop_fixed_stake(_, _, _, _)
SAG_loop_fixed_stake(trade_list, kelly_fraction, equity, curve) ==
  IF trade_list = << >> THEN curve
  ELSE LET trade_amount == Mul(curve[1], kelly_fraction)
           equity2 == Add(equity, Mul(Num(Head(trade_list).pnl), trade_amount))
       IN  SAG_loop_fixed_stake(Tail(trade_list), kelly_fraction, equity2,
                                Append(curve, equity2))

\* for t in trades: trade_amount = equity * kelly_fraction;
\* equity += t['pnl'] * trade_amount; curve.append(equity)
RECURSIVE SAG_loop(_, _, _, _)
SAG_loop(trade_list, kelly_fraction, equity, curve) ==
  IF trade_list = << >> THEN curve
  ELSE LET trade_amount == Mul(equity, kelly_fraction)
           equity2 == Add(equity, Mul(Num(Head(trade_list).pnl), trade_amount))
       IN  SAG_loop(Tail(trade_list), kelly_fraction, equity2,
                    Append(curve, equity2))

\* simulate_account_growth (Hover_Breakout_Test.py).
simulate_account_growth(trade_list, kelly_fraction, starting_balance) ==
  SAG_loop(trade_list, kelly_fraction, Num(starting_balance),
           <<Num(starting_balance)>>)

\* max(0, kelly_fraction)
max0(x) == IF x.n > 0 THEN x ELSE Num(0)

\* for t in trades: stake = eq * max(0, kelly_fraction);
\* eq += t["pnl"] * stake; curve.append(eq)
RECURSIVE SE_loop(_, _, _, _)
SE_loop(trade_list, kelly_fraction, eq, curve) ==
  IF trade_list = << >> THEN curve
  ELSE LET stake == Mul(eq, max0(kelly_fraction))
           eq2 == Add(eq, Mul(Num(Head(trade_list).pnl), stake))
       IN  SE_loop(Tail(trade_list), kelly_fraction, eq2, Append(curve, eq2))

\* simulate_equity (hover_strategy_test.py).
simulate_equity(trade_list, kelly_fraction, start_balance) ==
  SE_loop(trade_list, kelly_fraction, Num(start_balance),
          <<Num(start_balance)>>)

(***************************************************************************)
(* Specification: one call of a metric function or of an equity simulator  *)
(* on any trade list and arguments, or the part of main                    *)
(* (Hover_Breakout_Test.py) that follows run_backtest, on any trade list.  *)
(***************************************************************************)
MetricFunctions ==
  {"compute_metrics", "hover_strategy_test.compute_metrics",
   "strategy_tester.compute_metrics"}
Simulators == {"simulate_account_growth", "simulate_equity"}

\* The arguments of a call besides the trade list.
ArgSets(f) ==
  IF f \in MetricFunctions THEN [initial_equity : Balances]
  ELSE IF f \in Simulators
       THEN [kelly_fraction : Fractions, starting_balance : Balances]
  ELSE {<< >>}

\* The state a call ends in: returned, or the exception raised.
Outcome(value) ==
  IF Raised(value) THEN value.raised ELSE "returned"

Call_compute_metrics ==
  /\ fn = "compute_metrics" /\ pc = "call"
  /\ locals' = CM_locals(trades, params.initial_equity)
  /\ metrics' = compute_metrics(trades, params.initial_equity)
  /\ pc' = Outcome(metrics')
  /\ UNCHANGED <<fn, data, params, i, trades, scanned, reads>>
  /\ UNCHANGED <<equity_curve, optimizer>>

Call_HST_compute_metrics ==
  /\ fn = "hover_strategy_test.compute_metrics" /\ pc = "call"
  /\ locals' = HST_locals(trades, params.initial_equity)
  /\ metrics' = HST_compute_metrics(trades, params.initial_equity)
  /\ pc' = Outcome(metrics')
  /\ UNCHANGED <<fn, data, params, i, trades, scanned, reads>>
  /\ UNCHANGED <<equity_curve, optimizer>>

Call_ST_compute_metrics ==
  /\ fn = "strategy_tester.compute_metrics" /\ pc = "call"
  /\ locals' = ST_locals(trades, params.initial_equity)
  /\ metrics' = ST_compute_metrics(trades, params.initial_equity)
  /\ pc' = Outcome(metrics')
  /\ UNCHANGED <<fn, data, params, i, trades, scanned, reads>>
  /\ UNCHANGED <<equity_curve, optimizer>>

\* metrics = analyze_trades(trades) and the 'Total trades' line that main
\* of strategy_test.py prints from it.
Call_analyze_trades ==
  /\ fn = "strategy_test.analyze_trades" /\ pc = "call"
  /\ metrics' = analyze_trades(trades)
  /\ stdout' = Append(stdout,
                      [Total_trades |-> metrics'.wins + metrics'.losses])
  /\ pc' = "returned"
  /\ UNCHANGED <<fn, data, params, i, trades, scanned, reads>>
  /\ UNCHANGED <<equity_curve, locals>>
  /\ UNCHANGED <<caller, grid, combo, best, results, runs>>
  /\ UNCHANGED <<files, history, previous>>

Call_simulate_account_growth ==
  /\ fn = "simulate_account_growth" /\ pc = "call"
  /\ equity_curve' = simulate_account_growth(trades, params.kelly_fraction,
                                             params.starting_balance)
  /\ pc' = "returned"
  /\ UNCHANGED <<fn, data, params, i, trades, scanned, reads>>
  /\ UNCHANGED <<metrics, locals, optimizer>>

Call_simulate_equity ==
  /\ fn = "simulate_equity" /\ pc = "call"
  /\ equity_curve' = simulate_equity(trades, params.kelly_fraction,
                                     params.starting_balance)
  /\ pc' = "returned"
  /\ UNCHANGED <<fn, data, params, i, trades, scanned, reads>>
  /\ UNCHANGED <<metrics, locals, optimizer>>

\* main: metrics = compute_metrics(trades)
Main_compute_metrics ==
  /\ fn = "main" /\ pc = "call"
  /\ locals' = CM_locals(trades, default_balance)
  /\ metrics' = compute_metrics(trades, default_balance)
  /\ pc' = IF Raised(metrics') THEN metrics'.raised ELSE "metrics"
  /\ UNCHANGED <<fn, data, params, i, trades, scanned, reads>>
  /\ UNCHANGED <<equity_curve, optimizer>>

\* The dict with metrics['final_balance'] = round(equity_curve[-1], 2).
WithFinalBalance(m, curve) ==
  [k \in DOMAIN m \cup {"final_balance"} |->
     IF k = "final_balance" THEN round2(curve[Len(curve)]) ELSE m[k]]

\* main: kelly = metrics.get('kelly', 0); the equity curve is simulated
\* and its last balance is stored in the metrics.
Main_simulate ==
  /\ fn = "main" /\ pc = "metrics"
  /\ equity_curve' = simulate_account_growth(trades, metrics.kelly,
                                             default_balance)
  /\ metrics' = WithFinalBalance(metrics, equity_curve')
  /\ pc' = "returned"
  /\ UNCHANGED <<fn, data, params, i, trades, scanned, reads>>
  /\ UNCHANGED <<locals, optimizer>>

InitMetrics ==
  /\ fn \in MetricFunctions \cup Simulators
             \cup {"main", "strategy_test.analyze_trades"}
  /\ trades \in TradeLists
  /\ params \in ArgSets(fn)
  /\ pc = "call"
  /\ data = None /\ i = 0 /\ scanned = << >> /\ reads = {}
  /\ metrics = None /\ equity_curve = None /\ locals = None
  /\ caller = "" /\ grid = None /\ combo = None /\ best = None
  /\ results = None /\ runs = << >>
  /\ stdout = << >> /\ files = {} /\ history = << >> /\ previous = None

NextMetrics ==
  \/ Call_compute_metrics \/ Call_HST_compute_metrics
  \/ Call_ST_compute_metrics \/ Call_analyze_trades
  \/ Call_simulate_account_growth \/ Call_simulate_equity
  \/ Main_compute_metrics \/ Main_simulate

SpecMetrics == InitMetrics /\ [][NextMetrics]_vars

(***************************************************************************)
(* Vocabulary of the claims about the metric functions.                    *)
(***************************************************************************)
\* The trades won, the trades lost (a pnl of zero is a loss).
Won == {k \in 1 .. Len(trades) : trades[k].pnl > 0}
Lost == {k \in 1 .. Len(trades) : trades[k].pnl <= 0}

\* A call of one of the compute_metrics functions has returned.
MetricsReturned == fn \in MetricFunctions /\ pc = "returned"

\* The sum of the pnl of the trades of a set.
RECURSIVE PnlOf(_)
PnlOf(S) ==
  IF S = {} THEN 0
  ELSE LET k == CHOOSE x \in S : TRUE IN trades[k].pnl + PnlOf(S \ {k})

\* The cumulative pnl after the first k trades, and the drawdown there: the
\* highest cumulative pnl reached so far minus the current one.
CumPnl(k) == PnlOf(1 .. k)
DrawdownAt(k) == SetMax({CumPnl(j) : j \in 0 .. k}) - CumPnl(k)

\* C11: compute_metrics returns wins + losses = total_trades, the wins
\* being the trades with pnl > 0 and the losses those with pnl <= 0.
C11_WinsPlusLossesIsTotal ==
  MetricsReturned =>
    /\ metrics.wins + metrics.losses = metrics.total_trades
    /\ metrics.total_trades = Len(trades)
    /\ metrics.wins = Cardinality(Won)
    /\ metrics.losses = Cardinality(Lost)

\* C11 witness: metrics returned for a list with a win and a pnl of zero.
C11_Witness ==
  /\ MetricsReturned
  /\ Won # {}
  /\ \E k \in Lost : trades[k].pnl = 0

\* C12: compute_metrics of the empty trade list returns zero for all eight
\* metrics, whatever the starting balance.
C12_EmptyListAllZero ==
  (fn \in MetricFunctions /\ pc # "call" /\ trades = << >>) =>
    /\ pc = "returned"
    /\ metrics = [total_trades |-> 0, wins |-> 0, losses |-> 0,
                  win_rate |-> Num(0), net_profit |-> 0, max_drawdown |-> 0,
                  expectancy |-> Num(0), kelly |-> Num(0)]

\* C12 witness: metrics returned for the empty list with a starting balance
\* that is neither zero nor the default.
C12_Witness ==
  /\ MetricsReturned /\ trades = << >>
  /\ params.initial_equity \notin {0, default_balance}

\* C13: compute_metrics never raises, and a ratio whose denominator is zero
\* is 0: win_rate without trades, the average win without wins, the average
\* loss without losses, the risk-reward with a zero average loss, kelly with
\* a zero risk-reward.
C13_ZeroDenominatorGivesZero ==
  (fn \in MetricFunctions /\ pc # "call") =>
    /\ pc = "returned"
    /\ ~Raised(metrics)
    /\ trades = << >> => locals.win_rate = Num(0)
    /\ Won = {} => locals.avg_win = Num(0)
    /\ Lost = {} => locals.avg_loss = Num(0)
    /\ PnlOf(Lost) = 0 => locals.rr = Num(0)
    /\ (PnlOf(Lost) = 0 \/ Won = {}) => metrics.kelly = Num(0)

\* C13 witness: metrics returned for a list whose trades all have pnl = 0,
\* the average loss being zero with losses counted.
C13_Witness ==
  /\ MetricsReturned /\ fn = "compute_metrics"
  /\ Len(trades) >= 2
  /\ \A k \in 1 .. Len(trades) : trades[k].pnl = 0
  /\ metrics.losses = Len(trades)

\* C14: compute_metrics (Hover_Breakout_Test.py) returns
\* kelly = win_rate - (1 - win_rate) / rr when rr = avg_win / avg_loss is
\* greater than 0, and 0 otherwise; with n trades, w wins summing to sw and
\* l losses summing to -sl, that is (w*sw*l - (n-w)*sl*w) / (n*sw*l).
C14_KellyFormula ==
  (fn = "compute_metrics" /\ pc = "returned") =>
    LET n == Len(trades)
        w == Cardinality(Won)
        l == Cardinality(Lost)
        sw == PnlOf(Won)
        sl == -PnlOf(Lost)
    IN  IF sw > 0 /\ sl > 0
        THEN metrics.kelly.n * (n * sw * l)
               = metrics.kelly.d * (w * sw * l - (n - w) * sl * w)
        ELSE metrics.kelly = Num(0)

\* C14 witness: with wins and losses in the list, a kelly below zero that is
\* not a whole number is returned.
C14_Witness ==
  /\ fn = "compute_metrics" /\ pc = "returned"
  /\ Won # {} /\ PnlOf(Lost) < 0
  /\ metrics.kelly.n < 0 /\ metrics.kelly.d > 1

\* C15: the max_drawdown returned is the largest, over the prefixes of the
\* trade list, of the highest cumulative pnl so far (0 for the empty prefix)
\* minus the current cumulative pnl; it is not negative, and the starting
\* balance has no part in it.
C15_MaxDrawdownOverPrefixes ==
  MetricsReturned =>
    /\ metrics.max_drawdown
         = SetMax({DrawdownAt(k) : k \in 0 .. Len(trades)})
    /\ metrics.max_drawdown >= 0

\* C15 witness: a drawdown that was recovered from, computed with a
\* starting balance that is not the default.
C15_Witness ==
  /\ MetricsReturned
  /\ params.initial_equity # default_balance
  /\ metrics.max_drawdown > DrawdownAt(Len(trades))
  /\ \E k \in 1 .. Len(trades) : CumPnl(k) > 0

\* The curve has one balance more than there are trades, starts at the
\* starting balance, and each trade adds pnl * (balance * f).
FollowsStake(f) ==
  /\ Len(equity_curve) = Len(trades) + 1
  /\ equity_curve[1] = Num(params.starting_balance)
  /\ \A k \in 1 .. Len(trades) :
       equity_curve[k + 1] =
         Add(equity_curve[k],
             Mul(Num(trades[k].pnl), Mul(equity_curve[k], f)))

\* C16 (as claimed): the curve of simulate_account_growth and of
\* simulate_equity follows the stake fraction given, whatever it is.
C16_CurveFollowsFractionGiven ==
  (fn \in Simulators /\ pc = "returned") =>
    FollowsStake(params.kelly_fraction)

\* C16 (amended): the curve follows the stake fraction given in
\* simulate_account_growth, and the fraction given raised to zero when it
\* is negative in simulate_equity.
C16_CurveFollowsFractionApplied ==
  (fn \in Simulators /\ pc = "returned") =>
    FollowsStake(IF fn = "simulate_equity" /\ params.kelly_fraction.n < 0
                 THEN Num(0) ELSE params.kelly_fraction)

\* C16 witness: a curve of three balances that moves twice.
C16_Witness ==
  /\ fn \in Simulators /\ pc = "returned"
  /\ Len(trades) = 2
  /\ equity_curve[1] # equity_curve[2]
  /\ equity_curve[2] # equity_curve[3]
  /\ equity_curve[2].d > 1

\* C17 (as claimed): with a negative Kelly fraction, the equity curve of main
\* stays at the starting balance, and so does final_balance.
C17_NegativeKellyStakesNothing ==
  (fn = "main" /\ pc = "returned" /\ metrics.kelly.n < 0) =>
    /\ \A k \in 1 .. Len(equity_curve) : equity_curve[k] = Num(default_balance)
    /\ metrics.final_balance = Num(default_balance)

(***************************************************************************)
(* The grid optimizers.  A grid is the list of its keys and, in the same   *)
(* order, the list of the values of each key.  The series are of GridLen   *)
(* bars with prices up to GridPrice; the values of a grid are valid        *)
(* parameters (lookback >= 1, max_hold >= 1), with which no run raises.    *)
(* An optimizer is at "main_loop" at the head of its loop and calls the    *)
(* strategy function, whose steps are the steps of the section above.      *)
(***************************************************************************)
MaxGridLen == 2
GridLen == 4
GridPrice == 1

GridSeries ==
  { r \in [1 .. GridLen -> {b \in Rows : b.High <= GridPrice}] :
      \A k \in 2 .. GridLen : r[k].Open = r[k - 1].Close }

\* The lists of values of one key: up to MaxGridLen different values of S.
ValueLists(S) ==
  { l \in UNION {[1 .. n -> S] : n \in 1 .. MaxGridLen} :
      \A a, b \in DOMAIN l : a # b => l[a] # l[b] }

\* SPREAD = 0.0002, DEFAULT_PARAMS["Spread"]: two ticks.
SPREAD == 2

\* keys = ['lookback', 'hover_range', 'tp', 'sl', 'max_hold', 'spread'] and
\* grid = {k: getattr(args, k) for k in keys}
HBO_Grids ==
  { [keys |-> <<"lookback", "hover_range", "tp", "sl", "max_hold", "spread">>,
     values |-> <<a, b, <<t>>, <<MaxSl>>, <<1>>, f>>] :
      a \in ValueLists(1 .. MaxLookback), b \in ValueLists(0 .. MaxHover),
      t \in 1 .. MaxTp, f \in {<<0>>, <<SPREAD>>, <<0, SPREAD>>} }

\* PARAM_GRID of the two optimize functions.
OPT_Grids ==
  { [keys |-> <<"Back Candles", "Range Pips", "TP Pips", "SL Pips",
                "Future Candles">>,
     values |-> <<a, b, <<1>>, d, <<1>>>>] :
      a \in ValueLists(1 .. MaxLookback), b \in ValueLists(0 .. MaxHover),
      d \in ValueLists(1 .. MaxSl + 1) }

\* itertools.product of the lists: the positions of the first tuple, << >>
\* when there is none.
product_first ==
  IF \E k \in DOMAIN grid.values : grid.values[k] = << >> THEN << >>
  ELSE [k \in DOMAIN grid.values |-> 0]

\* The positions of the tuple after c: position k moves, and when it has
\* passed its last value it returns to 0 and position k - 1 moves.
RECURSIVE product_next(_, _)
product_next(c, k) ==
  IF k = 0 THEN << >>
  ELSE IF c[k] + 1 < Len(grid.values[k]) THEN [c EXCEPT ![k] = c[k] + 1]
  ELSE product_next([c EXCEPT ![k] = 0], k - 1)

\* The tuple at the positions c.
combo_values(c) == [k \in DOMAIN c |-> grid.values[k][c[k] + 1]]

\* The frame unchanged by a step of an optimizer that calls the strategy.
CallFrame == <<data, metrics, equity_curve, locals, caller, grid, combo,
               best, results, effects>>

(***************************************************************************)
(* main (HoverBreakoutOptimize.py).                                        *)
(***************************************************************************)
\* params = dict(zip(keys, combo)); trades = run_backtest(data, **params)
HBO_Call ==
  /\ caller = "HoverBreakoutOptimize.main" /\ pc = "main_loop"
  /\ combo # << >>
  /\ params' = [lookback |-> combo_values(combo)[1],
                hover_range |-> combo_values(combo)[2],
                tp |-> combo_values(combo)[3], sl |-> combo_values(combo)[4],
                max_hold |-> combo_values(combo)[5],
                spread |-> combo_values(combo)[6]]
  /\ runs' = Append(runs, combo_values(combo))
  /\ fn' = "run_backtest" /\ pc' = "loop"
  /\ i' = params'.lookback /\ trades' = << >>
  /\ scanned' = << >> /\ reads' = {}
  /\ UNCHANGED CallFrame

\* The best kept after a run: the first run, or a strictly higher
\* net_profit.
HBO_best(m) ==
  IF best = None \/ m.net_profit > best.metrics.net_profit
  THEN [params |-> params, metrics |-> m, trades |-> trades]
  ELSE best

\* metrics = compute_metrics(trades); the best is kept; the next combo.
HBO_Collect ==
  /\ caller = "HoverBreakoutOptimize.main"
  /\ fn = "run_backtest" /\ pc = "returned"
  /\ metrics' = compute_metrics(trades, default_balance)
  /\ locals' = CM_locals(trades, default_balance)
  /\ best' = HBO_best(metrics')
  /\ combo' = product_next(combo, Len(combo))
  /\ fn' = "main" /\ pc' = "main_loop"
  /\ history' = Append(history, [params |-> params, trades |-> trades,
                                  metrics |-> metrics'])
  /\ UNCHANGED <<data, params, i, trades, scanned, reads>>
  /\ UNCHANGED <<equity_curve, caller, grid, results, runs>>
  /\ UNCHANGED <<stdout, files, previous>>

\* open(file, "w"): the file opened for writing, or the TypeError of a
\* file that is not a path.  A Python value is given with its type.
open(file) ==
  IF file.type = "str" THEN [path |-> file.value]
  ELSE [raised |-> "TypeError"]

\* write_html_report as it is bound when main runs: the definition of
\* line 53, which replaces that of line 6 and has no equity_curve
\* parameter.  The rows are built, the file is opened and written.
write_html_report(best_params, best_metrics, output_path) ==
  IF Raised(open(output_path)) THEN open(output_path)
  ELSE [path |-> open(output_path).path,
        content |-> [params |-> best_params, metrics |-> best_metrics]]

\* After the loop: best_params.items() is read, the equity curve of the
\* best trades is simulated and final_balance stored; then
\* write_html_report(best_params, best_metrics, equity_curve).
HBO_Report ==
  /\ caller = "HoverBreakoutOptimize.main" /\ pc = "main_loop"
  /\ combo = << >>
  /\ IF best = None
     THEN /\ pc' = "AttributeError"
          /\ stdout' = Append(stdout, "Best Parameters:")
          /\ UNCHANGED <<equity_curve, best>>
     ELSE /\ equity_curve' = simulate_account_growth(
                               best.trades, best.metrics.kelly, default_balance)
          /\ best' = [best EXCEPT
                        !.metrics = WithFinalBalance(@, equity_curve')]
          /\ LET report == write_html_report(
                              best.params, best'.metrics,
                              [type |-> "list", value |-> equity_curve'])
             IN  IF Raised(report)
                 THEN /\ pc' = report.raised
                      /\ stdout' = stdout \o <<"Best Parameters:", best.params,
                                               "Metrics:", best'.metrics>>
                      /\ UNCHANGED files
                 ELSE /\ pc' = "returned_main"
                      /\ stdout' = stdout \o <<"Best Parameters:", best.params,
                                               "Metrics:", best'.metrics,
                                               "HTML report saved">>
                      /\ files' = {f \in files : f.path # report.path}
                                    \cup {report}
  /\ UNCHANGED <<fn, data, params, i, trades, scanned, reads>>
  /\ UNCHANGED <<metrics, locals, caller, grid, combo, results, runs>>
  /\ UNCHANGED <<history, previous>>

\* main is executed again on the same data and grid: what the first
\* execution made is kept in previous, and main starts anew.
HBO_Again ==
  /\ caller = "HoverBreakoutOptimize.main"
  /\ pc \in {"returned_main", "TypeError", "AttributeError"}
  /\ previous = None
  /\ previous' = [history |-> history, best |-> best, stdout |-> stdout,
                  equity_curve |-> equity_curve, pc |-> pc]
  /\ combo' = product_first
  /\ fn' = "main" /\ pc' = "main_loop"
  /\ params' = << >> /\ i' = 0 /\ trades' = << >>
  /\ scanned' = << >> /\ reads' = {}
  /\ metrics' = None /\ equity_curve' = None /\ locals' = None
  /\ best' = None /\ runs' = << >> /\ history' = << >> /\ stdout' = << >>
  /\ UNCHANGED <<data, caller, grid, results, files>>

(***************************************************************************)
(* optimize and run_test (Hover_Breakout/hover_breakout_optimizer.py),     *)
(* with calculate_stats (stats_calculator.py).                             *)
(***************************************************************************)
\* x < y for two fractions.
Less(x, y) == x.n * y.d < y.n * x.d

\* PIP_VALUE = 10; risk_factor = 0.01 and leverage = 100, the defaults.
PIP_VALUE == 10
risk_factor == Frac(1, 100)
leverage == 100

\* for _, row in trades.iterrows(): the equity after each trade.
RECURSIVE CS_loop(_, _, _)
CS_loop(trade_list, equity, curve) ==
  IF trade_list = << >> THEN curve
  ELSE LET trade_size == Mul(equity, risk_factor)
           lot_size == Div(Mul(trade_size, Num(leverage)), Num(100000))
           pnl == Mul(Mul(Num(PIP_VALUE), lot_size),
                      Num(Head(trade_list).Pip_PnL))
       IN  CS_loop(Tail(trade_list), Add(equity, pnl),
                   Append(curve, Add(equity, pnl)))

\* peaks = np.maximum.accumulate(curve);
\* drawdowns = (peaks - curve) / peaks * 100; the largest of them from
\* position k on, given the peak and the largest before k.
RECURSIVE CS_drawdown(_, _, _, _)
CS_drawdown(curve, k, peak, largest) ==
  IF k > Len(curve) THEN largest
  ELSE LET peak2 == IF Less(peak, curve[k]) THEN curve[k] ELSE peak
           dd == Mul(Div(Sub(peak2, curve[k]), peak2), Num(100))
       IN  CS_drawdown(curve, k + 1, peak2,
                       IF Less(largest, dd) THEN dd ELSE largest)

\* calculate_stats(trades): the stats, or the KeyError of
\* trades['Time Close'] on the frame without columns that
\* pd.DataFrame([]) is.  Of the stats, the three run_test reads.
calculate_stats(trade_list) ==
  LET curve == CS_loop(trade_list, Num(default_balance),
                       <<Num(default_balance)>>)
      max_drawdown == IF Len(curve) > 1
                      THEN CS_drawdown(curve, 1, curve[1], Num(0))
                      ELSE Num(0)
  IN  IF trade_list = << >> THEN [raised |-> "KeyError"]
      ELSE [Total_Trades |-> Len(trade_list),
            Max_Drawdown |-> round2(max_drawdown),
            Final_Equity |-> round2(curve[Len(curve)])]

\* run_test: trades = hover_breakout_strategy(df, back_candles=..., ...,
\* spread=DEFAULT_PARAMS["Spread"], save_log=False)
OPT_Call ==
  /\ caller = "hover_breakout_optimizer.optimize" /\ pc = "main_loop"
  /\ combo # << >>
  /\ params' = [back_candles |-> combo_values(combo)[1],
                range_pips |-> combo_values(combo)[2],
                tp_pips |-> combo_values(combo)[3],
                sl_pips |-> combo_values(combo)[4],
                future_candles |-> combo_values(combo)[5],
                spread |-> SPREAD]
  /\ runs' = Append(runs, combo_values(combo))
  /\ fn' = "hover_breakout_strategy" /\ pc' = "loop"
  /\ i' = params'.back_candles /\ trades' = << >>
  /\ scanned' = << >> /\ reads' = {}
  /\ UNCHANGED CallFrame

\* run_test: stats, _ = calculate_stats(trades); the dict returned is
\* appended to results; the next combination.
OPT_Collect ==
  /\ caller = "hover_breakout_optimizer.optimize"
  /\ fn = "hover_breakout_strategy" /\ pc = "returned"
  /\ fn' = "optimize"
  /\ IF Raised(calculate_stats(trades))
     THEN /\ pc' = calculate_stats(trades).raised
          /\ UNCHANGED <<results, combo>>
     ELSE /\ results' =
               Append(results,
                      [Params |-> runs[Len(runs)],
                       Final_Equity |-> calculate_stats(trades).Final_Equity,
                       Total_Trades |-> calculate_stats(trades).Total_Trades,
                       Max_Drawdown |-> calculate_stats(trades).Max_Drawdown])
          /\ combo' = product_next(combo, Len(combo))
          /\ pc' = "main_loop"
  /\ UNCHANGED <<data, params, i, trades, scanned, reads>>
  /\ UNCHANGED <<metrics, equity_curve, locals, caller, grid, best, runs>>
  /\ UNCHANGED effects

\* key=lambda r: (-r["Final Equity"], -r["Total Trades"], r["Max Drawdown"]):
\* the key of a is less than the key of b.
key_less(a, b) ==
  \/ Less(b.Final_Equity, a.Final_Equity)
  \/ /\ a.Final_Equity = b.Final_Equity
     /\ \/ a.Total_Trades > b.Total_Trades
        \/ /\ a.Total_Trades = b.Total_Trades
           /\ Less(a.Max_Drawdown, b.Max_Drawdown)

\* Variant of sort_insert: r goes before the results of equal key.
RECURSIVE sort_insert_before_equal(_, _)
sort_insert_before_equal(sorted, r) ==
  IF sorted = << >> THEN <<r>>
  ELSE IF ~key_less(Head(sorted), r) THEN <<r>> \o sorted
  ELSE <<Head(sorted)>> \o sort_insert_before_equal(Tail(sorted), r)

\* list.sort is stable: r goes before the first result of greater key.
RECURSIVE sort_insert(_, _)
sort_insert(sorted, r) ==
  IF sorted = << >> THEN <<r>>
  ELSE IF key_less(r, Head(sorted)) THEN <<r>> \o sorted
  ELSE <<Head(sorted)>> \o sort_insert(Tail(sorted), r)

\* results.sort(key=...)
RECURSIVE sort(_, _)
sort(list, sorted) ==
  IF list = << >> THEN sorted
  ELSE sort(Tail(list), sort_insert(sorted, Head(list)))

\* After the loop: the results are sorted (and written out).
OPT_Sort ==
  /\ caller = "hover_breakout_optimizer.optimize" /\ pc = "main_loop"
  /\ combo = << >>
  /\ results' = sort(results, << >>)
  /\ pc' = "sorted"
  /\ UNCHANGED <<fn, data, params, i, trades, scanned, reads>>
  /\ UNCHANGED <<metrics, equity_curve, locals, caller, grid, combo, best,
                 runs, effects>>

(***************************************************************************)
(* optimize (hover_breakout_optimize.py): run_strategy is called with the  *)
(* keys of PARAM_GRID as keywords, 'BACK_CANDLES' to 'FUTURE_CANDLES',     *)
(* which are not the names of its parameters: the first call raises        *)
(* TypeError.                                                              *)
(***************************************************************************)
RS_Call ==
  /\ caller = "hover_breakout_optimize.optimize" /\ pc = "main_loop"
  /\ combo # << >>
  /\ params' = combo_values(combo)
  /\ pc' = "TypeError"
  /\ UNCHANGED <<fn, data, i, trades, scanned, reads, runs>>
  /\ UNCHANGED CallFrame

(***************************************************************************)
(* Specification: one run of a grid optimizer on any series and grid.      *)
(***************************************************************************)
Optimizers ==
  {"HoverBreakoutOptimize.main", "hover_breakout_optimizer.optimize",
   "hover_breakout_optimize.optimize"}

InitOptimize ==
  /\ caller \in Optimizers
  /\ \E rows \in GridSeries : data = load_data(rows)
  /\ grid \in (IF caller = "HoverBreakoutOptimize.main" THEN HBO_Grids
               ELSE OPT_Grids)
  /\ combo = product_first
  /\ fn = "main" /\ pc = "main_loop"
  /\ params = << >> /\ i = 0 /\ trades = << >>
  /\ scanned = << >> /\ reads = {}
  /\ metrics = None /\ equity_curve = None /\ locals = None
  /\ best = None /\ results = << >> /\ runs = << >>
  /\ stdout = << >> /\ files = {} /\ history = << >> /\ previous = None

NextOptimize ==
  \/ HBO_Call \/ HBO_Collect \/ HBO_Report
  \/ OPT_Call \/ OPT_Collect \/ OPT_Sort
  \/ RS_Call
  \/ RB_NoHover \/ RB_NoBreakout \/ RB_Trade \/ RB_Return
  \/ HBS_NoHover \/ HBS_NoBreakout \/ HBS_Trade \/ HBS_Return

SpecOptimize == InitOptimize /\ [][NextOptimize]_vars

(***************************************************************************)
(* Specification: main (HoverBreakoutOptimize.py) executed twice on the    *)
(* same series and grid.                                                   *)
(***************************************************************************)
InitRepeat == InitOptimize /\ caller = "HoverBreakoutOptimize.main"

NextRepeat ==
  \/ HBO_Call \/ HBO_Collect \/ HBO_Report \/ HBO_Again
  \/ RB_NoHover \/ RB_NoBreakout \/ RB_Trade \/ RB_Return

SpecRepeat == InitRepeat /\ [][NextRepeat]_vars

(***************************************************************************)
(* Vocabulary of the claims about the grid optimizers.                     *)
(***************************************************************************)
\* The number of tuples of the keys after key j, and of all keys.
RECURSIVE TuplesAfter(_)
TuplesAfter(j) ==
  IF j >= Len(grid.values) THEN 1
  ELSE Len(grid.values[j + 1]) * TuplesAfter(j + 1)
ProductSize == TuplesAfter(0)

\* The tuple number n (from 0) of the Cartesian product in lexicographic
\* order over the keys as declared, the last key varying fastest.
NthTuple(n) ==
  [j \in DOMAIN grid.values |->
     grid.values[j][((n \div TuplesAfter(j)) % Len(grid.values[j])) + 1]]

\* The optimizer has ended, by a return or by an exception.
Ended == pc \notin {"main_loop", "loop", "returned"}

\* The place of a result in the order of enumeration.
PlaceOf(r) == CHOOSE k \in 1 .. Len(runs) : runs[k] = r.Params

\* C18 (as claimed): main (HoverBreakoutOptimize.py) and optimize
\* (hover_breakout_optimizer.py) run the backtest on every tuple of the
\* Cartesian product of the grid exactly once, in lexicographic order, so
\* that an ended run has made as many backtest runs as the product has
\* tuples.
C18_EveryTupleOnceInOrder ==
  caller \in {"HoverBreakoutOptimize.main",
              "hover_breakout_optimizer.optimize"} =>
    /\ \A k \in 1 .. Len(runs) : runs[k] = NthTuple(k - 1)
    /\ Ended => Len(runs) = ProductSize

\* C18 (the part that holds): the runs made so far are the first tuples of
\* the product in lexicographic order, each once, and a run that ended
\* without an exception has made all of them.
C18_RunsFollowProductOrder ==
  caller \in {"HoverBreakoutOptimize.main",
              "hover_breakout_optimizer.optimize"} =>
    /\ Len(runs) <= ProductSize
    /\ \A k \in 1 .. Len(runs) : runs[k] = NthTuple(k - 1)
    /\ (pc = "sorted" \/ (caller = "HoverBreakoutOptimize.main" /\ Ended))
         => Len(runs) = ProductSize

\* C19: after optimize has sorted its results, of two adjacent results the
\* first has the higher or equal Final Equity; on equal Final Equity the
\* higher or equal Total Trades; on both equal the lower or equal Max
\* Drawdown; and on all three equal it is the one enumerated first.
C19_SortedByKeyAndStable ==
  (caller = "hover_breakout_optimizer.optimize" /\ pc = "sorted") =>
    /\ Len(results) = Len(runs)
    /\ \A k \in 1 .. Len(runs) : \E n \in 1 .. Len(results) :
         results[n].Params = runs[k]
    /\ \A k \in 1 .. Len(results) - 1 :
         LET a == results[k]
             b == results[k + 1]
         IN  /\ ~Less(a.Final_Equity, b.Final_Equity)
             /\ a.Final_Equity = b.Final_Equity =>
                  a.Total_Trades >= b.Total_Trades
             /\ (a.Final_Equity = b.Final_Equity
                   /\ a.Total_Trades = b.Total_Trades) =>
                  ~Less(b.Max_Drawdown, a.Max_Drawdown)
             /\ (a.Final_Equity = b.Final_Equity
                   /\ a.Total_Trades = b.Total_Trades
                   /\ a.Max_Drawdown = b.Max_Drawdown) =>
                  PlaceOf(a) < PlaceOf(b)

\* C19 witness: sorted results of which two adjacent ones are equal on the
\* three keys and two adjacent ones were enumerated in the other order.
C19_Witness ==
  /\ caller = "hover_breakout_optimizer.optimize" /\ pc = "sorted"
  /\ \E k \in 1 .. Len(results) - 1 :
       /\ results[k].Final_Equity = results[k + 1].Final_Equity
       /\ results[k].Total_Trades = results[k + 1].Total_Trades
       /\ results[k].Max_Drawdown = results[k + 1].Max_Drawdown
  /\ \E k \in 1 .. Len(results) - 1 :
       PlaceOf(results[k]) > PlaceOf(results[k + 1])

\* C20 (as claimed): in optimize (hover_breakout_optimizer.py), once the
\* run of a combination has returned no trade and run_test has treated it,
\* no error was raised and the combination has its record in the results,
\* with Total Trades = 0 and Max Drawdown = 0.
C20_ZeroTradesGiveZeroRecord ==
  (caller = "hover_breakout_optimizer.optimize" /\ fn = "optimize"
     /\ trades = << >> /\ pc # "sorted") =>
    /\ pc = "main_loop"
    /\ Len(results) = Len(runs)
    /\ results[Len(results)].Total_Trades = 0
    /\ results[Len(results)].Max_Drawdown = Num(0)

C26_ReportWritten ==
  (caller = "HoverBreakoutOptimize.main" /\ Ended /\ runs # << >>) =>
    /\ pc = "returned_main"
    /\ \E f \in files :
         /\ f.path = "hover_optimize_report.html"
         /\ f.content.params = best.params
         /\ f.content.metrics = best.metrics
         /\ f.content.equity_curve = equity_curve

\* The default objective, (-net_profit, -total_trades, max_drawdown): the
\* metrics a rank before the metrics b.
RanksBefore(a, b) ==
  \/ a.net_profit > b.net_profit
  \/ /\ a.net_profit = b.net_profit
     /\ \/ a.total_trades > b.total_trades
        \/ /\ a.total_trades = b.total_trades
           /\ a.max_drawdown < b.max_drawdown

\* C22 (as claimed): the combination that main (HoverBreakoutOptimize.py)
\* reports as best is ranked first under the default objective: no
\* combination of the grid has a higher net profit, or the same net profit
\* and more trades, or the same of both and a lower max drawdown.
C22_BestIsRankedFirst ==
  (caller = "HoverBreakoutOptimize.main" /\ Ended /\ best # None) =>
    \A k \in 1 .. Len(history) :
      ~RanksBefore(history[k].metrics, best.metrics)

(***************************************************************************)
(* The backtests that also keep an account: simulate_strategy              *)
(* (hover_breakout_test.py), backtest (grouped_volatility_backtest.py),    *)
(* hover_breakout_backtest (hover_breakout_new.py), and calculate_stats    *)
(* (backtest_template.py).  The Time of row k is k.  Money is exact.       *)
(***************************************************************************)
\* The series of up to GridLen joined bars with prices up to GridPrice.
AccountSeries ==
  UNION { { r \in [1 .. n -> {b \in Rows : b.High <= GridPrice}] :
              \A k \in 2 .. n : r[k].Open = r[k - 1].Close } :
          n \in 0 .. GridLen }

\* numpy's nan, and np.mean of a list of numbers: nan for the empty list.
NaN == [nan |-> TRUE]

RECURSIVE fsum(_)
fsum(list) == IF list = << >> THEN Num(0) ELSE Add(Head(list), fsum(Tail(list)))

np_mean(list) ==
  IF list = << >> THEN NaN ELSE Div(fsum(list), Num(Len(list)))

\* x / starting_equity * 100, nan staying nan.
Percent(x, starting_equity) ==
  IF x = NaN THEN NaN ELSE Mul(Div(x, Num(starting_equity)), Num(100))

(***************************************************************************)
(* simulate_strategy (hover_breakout_test.py).                             *)
(***************************************************************************)
PIP_SIZE == 1
PIP_VALUE_PER_LOT == 10

SS_ParamSets ==
  [lookback : 1 .. MaxLookback, range_threshold_pips : 0 .. MaxHover,
   stop_loss_pips : 1 .. MaxSl + 1, take_profit_pips : 1 .. MaxTp,
   hold_period : 0 .. 1, spread_pips : {0, SPREAD},
   risk_per_trade : {Frac(3, 100)}, initial_equity : {default_balance},
   bars_per_check : 1 .. 2]

\* half_spread, step, lookback_bars and hold_bars.
SS_bars ==
  [half_spread |-> (params.spread_pips \div 2) * PIP_SIZE,
   step |-> params.bars_per_check,
   lookback |-> params.lookback * params.bars_per_check,
   hold |-> params.hold_period * params.bars_per_check]

\* range_high = df['High'].iloc[i-lookback_bars:i].max() and
\* range_low = df['Low'].iloc[i-lookback_bars:i].min()
SS_range(idx) ==
  [high |-> Max(Slice(data.high, idx - SS_bars.lookback, idx)),
   low |-> Min(Slice(data.low, idx - SS_bars.lookback, idx))]

SS_Hovering(idx) ==
  SS_range(idx).high - SS_range(idx).low
    <= params.range_threshold_pips * PIP_SIZE

SS_breakout(idx) ==
  IF At(data.close, idx) > SS_range(idx).high THEN "long"
  ELSE IF At(data.close, idx) < SS_range(idx).low THEN "short"
  ELSE "None"

\* for j in range(entry_index, min(entry_index + hold_bars + 1, len(df))):
\* the stop is tested before the target; None when neither is met.
RECURSIVE SS_Scan(_, _, _, _, _)
SS_Scan(j, end, breakout, sl, tp) ==
  IF j >= end THEN None
  ELSE IF breakout = "long" THEN
    IF At(data.low, j) <= sl THEN [exit_raw |-> sl, exit_time |-> j]
    ELSE IF At(data.high, j) >= tp THEN [exit_raw |-> tp, exit_time |-> j]
    ELSE SS_Scan(j + 1, end, breakout, sl, tp)
  ELSE
    IF At(data.high, j) >= sl THEN [exit_raw |-> sl, exit_time |-> j]
    ELSE IF At(data.low, j) <= tp THEN [exit_raw |-> tp, exit_time |-> j]
    ELSE SS_Scan(j + 1, end, breakout, sl, tp)

\* The dict appended to trades, the account being at equity.
SS_Trade_dict(idx, breakout, equity) ==
  LET direction == IF breakout = "long" THEN 1 ELSE -1
      entry_price == At(data.close, idx) + SS_bars.half_spread * direction
      sl == entry_price - direction * params.stop_loss_pips * PIP_SIZE
      tp == entry_price + direction * params.take_profit_pips * PIP_SIZE
      hit == SS_Scan(idx,
                     IF idx + SS_bars.hold + 1 < length
                     THEN idx + SS_bars.hold + 1 ELSE length,
                     breakout, sl, tp)
      end_index == IF idx + SS_bars.hold < length - 1
                   THEN idx + SS_bars.hold ELSE length - 1
      x == IF hit # None THEN hit
           ELSE [exit_raw |-> At(data.close, end_index),
                 exit_time |-> end_index]
      exit_price == x.exit_raw - direction * SS_bars.half_spread
      result_pips == ((exit_price - entry_price) * direction) \div PIP_SIZE
      fixed_risk_amount == Mul(Num(params.initial_equity),
                               params.risk_per_trade)
      lot_size == Div(fixed_risk_amount,
                      Num(params.stop_loss_pips * PIP_VALUE_PER_LOT))
      profit == Mul(Num(result_pips * PIP_VALUE_PER_LOT), lot_size)
  IN  [Time_Open |-> idx, Open_Price |-> entry_price,
       Time_Close |-> x.exit_time, Close_Price |-> exit_price,
       Take_Profit_Price |-> tp, Stop_Loss_Price |-> sl,
       Profit |-> profit, Trade_Impact |-> Div(profit, equity),
       Account_Size |-> Add(equity, profit)]

\* times = [df['Time'].iloc[0]] on a frame without rows.
SS_Raise ==
  /\ fn = "simulate_strategy" /\ pc = "loop" /\ length = 0
  /\ pc' = "IndexError"
  /\ UNCHANGED <<fn, data, params, i, trades, scanned, reads>>
  /\ UNCHANGED <<metrics, equity_curve, locals, optimizer>>

\* for i in range(lookback_bars, len(df) - hold_bars, step)
SS_NoHover ==
  /\ fn = "simulate_strategy" /\ pc = "loop" /\ length > 0
  /\ i < length - SS_bars.hold
  /\ ~SS_Hovering(i)
  /\ i' = i + SS_bars.step
  /\ scanned' = Append(scanned, i)
  /\ UNCHANGED <<fn, data, params, trades, pc, reads>>
  /\ UNCHANGED <<metrics, equity_curve, locals, optimizer>>

SS_NoBreakout ==
  /\ fn = "simulate_strategy" /\ pc = "loop" /\ length > 0
  /\ i < length - SS_bars.hold
  /\ SS_Hovering(i) /\ SS_breakout(i) = "None"
  /\ i' = i + SS_bars.step
  /\ scanned' = Append(scanned, i)
  /\ UNCHANGED <<fn, data, params, trades, pc, reads>>
  /\ UNCHANGED <<metrics, equity_curve, locals, optimizer>>

SS_Trade ==
  /\ fn = "simulate_strategy" /\ pc = "loop" /\ length > 0
  /\ i < length - SS_bars.hold
  /\ SS_Hovering(i) /\ SS_breakout(i) # "None"
  /\ trades' = Append(trades,
                      SS_Trade_dict(i, SS_breakout(i),
                                    equity_curve[Len(equity_curve)]))
  /\ equity_curve' = Append(equity_curve,
                            trades'[Len(trades')].Account_Size)
  /\ i' = i + SS_bars.step
  /\ scanned' = Append(scanned, i)
  /\ UNCHANGED <<fn, data, params, pc, reads>>
  /\ UNCHANGED <<metrics, locals, optimizer>>

SS_Return ==
  /\ fn = "simulate_strategy" /\ pc = "loop" /\ length > 0
  /\ i >= length - SS_bars.hold
  /\ pc' = "returned"
  /\ UNCHANGED <<fn, data, params, i, trades, scanned, reads>>
  /\ UNCHANGED <<metrics, equity_curve, locals, optimizer>>


(***************************************************************************)
(* The statistics block that closes hover_breakout_backtest                *)
(* (hover_breakout_new.py) and backtest (grouped_volatility_backtest.py)   *)
(* and is the body of calculate_stats (backtest_template.py): the same     *)
(* statements in the three files.                                          *)
(***************************************************************************)
\* profits = [t['Profit/Loss'] for t in trade_log]
Stats_profits(trade_log) ==
  [k \in 1 .. Len(trade_log) |-> trade_log[k].Profit_Loss]

\* wins = [t for t in trade_log if t['Profit/Loss'] > 0]
Stats_wins(trade_log) ==
  SelectSeq(trade_log, LAMBDA t : Less(Num(0), t.Profit_Loss))

\* win_rate = len(wins) / total_trades * 100 if total_trades else 0
Stats_win_rate(trade_log) ==
  IF Len(trade_log) # 0
  THEN Mul(Div(Num(Len(Stats_wins(trade_log))), Num(Len(trade_log))), Num(100))
  ELSE Num(0)

\* avg_win = np.mean([p for p in profits if p > 0]) / starting_equity * 100
\*           if wins else 0
Stats_avg_win(trade_log, starting_equity) ==
  IF Stats_wins(trade_log) # << >>
  THEN Percent(np_mean(SelectSeq(Stats_profits(trade_log),
                                 LAMBDA p : Less(Num(0), p))),
               starting_equity)
  ELSE Num(0)

\* avg_loss = np.mean([abs(p) for p in profits if p < 0])
\*            / starting_equity * 100 if len(profits) > len(wins) else 0
Stats_avg_loss(trade_log, starting_equity) ==
  LET losing == SelectSeq(Stats_profits(trade_log), LAMBDA p : Less(p, Num(0)))
  IN  IF Len(Stats_profits(trade_log)) > Len(Stats_wins(trade_log))
      THEN Percent(np_mean([k \in 1 .. Len(losing) |->
                              Sub(Num(0), losing[k])]),
                   starting_equity)
      ELSE Num(0)

\* peaks = np.maximum.accumulate(eq_values);
\* drawdowns = 100 * (peaks - eq_values) / starting_equity; np.max of them,
\* from position k on, given the peak and the largest before k.
RECURSIVE np_max_drawdowns(_, _, _, _, _)
np_max_drawdowns(eq_values, k, peak, largest, starting_equity) ==
  IF k > Len(eq_values) THEN largest
  ELSE LET peak2 == IF k = 1 \/ Less(peak, eq_values[k]) THEN eq_values[k]
                    ELSE peak
           dd == Div(Mul(Num(100), Sub(peak2, eq_values[k])),
                     Num(starting_equity))
       IN  np_max_drawdowns(eq_values, k + 1, peak2,
                            IF k = 1 \/ Less(largest, dd) THEN dd
                            ELSE largest,
                            starting_equity)

\* if equity_curve: ... max_drawdown = np.max(drawdowns)
\* else: max_drawdown = 0
Stats_max_drawdown(curve, starting_equity) ==
  IF curve # << >>
  THEN np_max_drawdowns([k \in 1 .. Len(curve) |-> curve[k].equity], 1,
                        Num(0), Num(0), starting_equity)
  ELSE Num(0)

\* The equity after the trades made so far.
equity_after(curve, starting_equity) ==
  IF curve = << >> THEN Num(starting_equity)
  ELSE curve[Len(curve)].equity

\* results = {'Final Equity': equity, ..., 'Max Drawdown': max_drawdown},
\* with expectancy = np.mean(profits) / STARTING_EQUITY * 100 if profits
\* else 0
Stats_results(trade_log, curve, starting_equity) ==
  [Final_Equity |-> equity_after(curve, starting_equity),
   Total_Trades |-> Len(trade_log),
   Win_Rate |-> Stats_win_rate(trade_log),
   Expectancy |-> IF trade_log # << >>
                  THEN Percent(np_mean(Stats_profits(trade_log)),
                               starting_equity)
                  ELSE Num(0),
   Average_Win_Size |-> Stats_avg_win(trade_log, starting_equity),
   Average_Loss_Size |-> Stats_avg_loss(trade_log, starting_equity),
   Max_Drawdown |-> Stats_max_drawdown(curve, starting_equity)]

(***************************************************************************)
(* backtest (grouped_volatility_backtest.py).  The file read is sorted by  *)
(* Time.                                                                   *)
(***************************************************************************)
GVB_ParamSets ==
  [back_candles : 1 .. MaxLookback, candle_size_pips : 0 .. 1,
   tp_pips : 1 .. MaxTp, sl_pips : 1 .. MaxSl + 1, future_candles : 0 .. 1,
   follow_direction : BOOLEAN, generate_files : BOOLEAN]

\* large_candles: the positions in the window of the candles of at least
\* size_threshold, in ascending order.
GVB_large_candles(idx) ==
  { k \in 0 .. params.back_candles - 1 :
      At(data.high, idx - params.back_candles + k)
        - At(data.low, idx - params.back_candles + k)
        >= params.candle_size_pips }

\* direction: that of the last large candle, or its opposite.
GVB_direction(idx) ==
  LET last_large_index == SetMax(GVB_large_candles(idx))
      at == idx - params.back_candles + last_large_index
      direction == IF At(data.close, at) > At(data.open, at) THEN 1 ELSE -1
  IN  IF params.follow_direction THEN direction ELSE -direction

\* for j in range(0, future_candles + 1)
RECURSIVE GVB_Scan(_, _, _, _, _)
GVB_Scan(idx, j, d, tp_price, sl_price) ==
  IF j >= params.future_candles + 1 THEN [outcome |-> "partial"]
  ELSE LET high == At(data.high, idx + j)
           low == At(data.low, idx + j)
           at_sl == [outcome |-> "sl", close_price |-> sl_price,
                     exit_time |-> idx + j]
           at_tp == [outcome |-> "tp", close_price |-> tp_price,
                     exit_time |-> idx + j]
       IN  IF d = 1 THEN
             IF high >= tp_price /\ low <= sl_price THEN at_sl
             ELSE IF low <= sl_price THEN at_sl
             ELSE IF high >= tp_price THEN at_tp
             ELSE GVB_Scan(idx, j + 1, d, tp_price, sl_price)
           ELSE
             IF low <= tp_price /\ high >= sl_price THEN at_sl
             ELSE IF high >= sl_price THEN at_sl
             ELSE IF low <= tp_price THEN at_tp
             ELSE GVB_Scan(idx, j + 1, d, tp_price, sl_price)

\* The dict appended to trade_log.
GVB_Trade_dict(idx, d) ==
  LET entry_price == At(data.open, idx) + d * (SPREAD \div 2)
      tp_price == entry_price + d * params.tp_pips
      sl_price == entry_price - d * params.sl_pips
      s == GVB_Scan(idx, 0, d, tp_price, sl_price)
      x == IF s.outcome # "partial" THEN s
           ELSE [outcome |-> "partial",
                 close_price |-> At(data.close, idx + params.future_candles)
                                   - d * (SPREAD \div 2),
                 exit_time |-> idx + params.future_candles]
      pnl_pips == (x.close_price - entry_price) * d
      risk_amount == Mul(Num(default_balance), Frac(2, 100))
      pnl_money == Mul(Div(Num(pnl_pips), Num(params.sl_pips)), risk_amount)
  IN  [Time_Open |-> idx, Open_Price |-> entry_price,
       Time_Close |-> x.exit_time, Close_Price |-> x.close_price,
       Take_Profit_Price |-> tp_price, Stop_Loss_Price |-> sl_price,
       Profit_Loss |-> pnl_money]

\* for idx in range(back_candles, len(df) - future_candles):
\* if not large_candles: continue
GVB_NoLarge ==
  /\ fn = "grouped_volatility_backtest.backtest" /\ pc = "loop"
  /\ i < length - params.future_candles
  /\ GVB_large_candles(i) = {}
  /\ i' = i + 1
  /\ scanned' = Append(scanned, i)
  /\ UNCHANGED <<fn, data, params, trades, pc, reads>>
  /\ UNCHANGED <<metrics, equity_curve, locals, optimizer>>

GVB_Trade ==
  /\ fn = "grouped_volatility_backtest.backtest" /\ pc = "loop"
  /\ i < length - params.future_candles
  /\ GVB_large_candles(i) # {}
  /\ trades' = Append(trades, GVB_Trade_dict(i, GVB_direction(i)))
  /\ equity_curve' =
       Append(equity_curve,
              [time |-> trades'[Len(trades')].Time_Close,
               equity |-> Add(equity_after(equity_curve, default_balance),
                              trades'[Len(trades')].Profit_Loss)])
  /\ i' = i + 1
  /\ scanned' = Append(scanned, i)
  /\ UNCHANGED <<fn, data, params, pc, reads>>
  /\ UNCHANGED <<metrics, locals, optimizer>>

\* After the loop: the statistics, the files, and the results returned.
GVB_Return ==
  /\ fn = "grouped_volatility_backtest.backtest" /\ pc = "loop"
  /\ i >= length - params.future_candles
  /\ results' = Stats_results(trades, equity_curve, default_balance)
  /\ files' = IF params.generate_files
              THEN files \cup {"equity_curve_grouped.png",
                               "grouped_volatility_results.pdf",
                               "tradelog_GroupedVolatility.csv"}
              ELSE files
  /\ pc' = "returned"
  /\ UNCHANGED <<fn, data, params, i, trades, scanned, reads>>
  /\ UNCHANGED <<metrics, equity_curve, locals>>
  /\ UNCHANGED <<caller, grid, combo, best, runs, stdout, history, previous>>

(***************************************************************************)
(* hover_breakout_backtest (hover_breakout_new.py): the loop is that of    *)
(* hover_breakout_strategy, statement by statement, with SPREAD for the    *)
(* spread; each trade has its profit and the account follows.              *)
(***************************************************************************)
\* The series given to it: up to StatsLen joined bars with prices up to
\* StatsPrice, so that a close can be two pips, the spread, away from the
\* close before it.
StatsLen == 3
StatsPrice == 3

StatsSeries ==
  UNION { { r \in [1 .. n -> {b \in [Open : 0 .. StatsPrice,
                                      High : 0 .. StatsPrice,
                                      Low : 0 .. StatsPrice,
                                      Close : 0 .. StatsPrice] :
                                /\ b.Low <= b.Open /\ b.Open <= b.High
                                /\ b.Low <= b.Close /\ b.Close <= b.High}] :
              \A k \in 2 .. n : r[k].Open = r[k - 1].Close } :
          n \in 0 .. StatsLen }

HBN_ParamSets ==
  [back_candles : 1 .. MaxLookback, range_pips : 0 .. MaxHover,
   tp_pips : 1 .. MaxTp, sl_pips : 1 .. MaxSl + 1, future_candles : {1},
   spread : {SPREAD}, generate_files : {TRUE}]

\* The dict appended to trade_log.
HBN_Trade_dict(idx, d) ==
  LET t == HBS_Trade_dict(idx, d)
      pnl_pips == (t.Close_Price - t.Open_Price) * d
      pnl_multiple == Div(Num(pnl_pips), Num(params.sl_pips))
      risk_per_trade == Mul(Num(default_balance), Frac(3, 100))
  IN  [Time_Open |-> t.Time_Open, Open_Price |-> t.Open_Price,
       Time_Close |-> t.Time_Close, Close_Price |-> t.Close_Price,
       Take_Profit_Price |-> t.TP, Stop_Loss_Price |-> t.SL,
       Profit_Loss |-> Mul(pnl_multiple, risk_per_trade),
       Outcome |-> t.Status]

\* for idx in range(back_candles, len(df) - future_candles)
HBN_NoHover ==
  /\ fn = "hover_breakout_new.hover_breakout_backtest" /\ pc = "loop"
  /\ i < length - params.future_candles
  /\ ~HBS_InRange(i)
  /\ i' = i + 1
  /\ scanned' = Append(scanned, i)
  /\ UNCHANGED <<fn, data, params, trades, pc, reads>>
  /\ UNCHANGED <<metrics, equity_curve, locals, optimizer>>

HBN_NoBreakout ==
  /\ fn = "hover_breakout_new.hover_breakout_backtest" /\ pc = "loop"
  /\ i < length - params.future_candles
  /\ HBS_InRange(i) /\ HBS_direction(i) = 0
  /\ i' = i + 1
  /\ scanned' = Append(scanned, i)
  /\ UNCHANGED <<fn, data, params, trades, pc, reads>>
  /\ UNCHANGED <<metrics, equity_curve, locals, optimizer>>

HBN_Trade ==
  /\ fn = "hover_breakout_new.hover_breakout_backtest" /\ pc = "loop"
  /\ i < length - params.future_candles
  /\ HBS_InRange(i) /\ HBS_direction(i) # 0
  /\ trades' = Append(trades, HBN_Trade_dict(i, HBS_direction(i)))
  /\ equity_curve' =
       Append(equity_curve,
              [time |-> trades'[Len(trades')].Time_Close,
               equity |-> Add(equity_after(equity_curve, default_balance),
                              trades'[Len(trades')].Profit_Loss)])
  /\ i' = i + 1
  /\ scanned' = Append(scanned, i)
  /\ UNCHANGED <<fn, data, params, pc, reads>>
  /\ UNCHANGED <<metrics, locals, optimizer>>

\* After the loop: the statistics, the files, and the results returned.
HBN_Return ==
  /\ fn = "hover_breakout_new.hover_breakout_backtest" /\ pc = "loop"
  /\ i >= length - params.future_candles
  /\ results' = Stats_results(trades, equity_curve, default_balance)
  /\ files' = IF params.generate_files
              THEN files \cup {"equity_curve_new.png",
                               "hover_breakout_results_new.pdf",
                               "tradelog_HoverBreakout_new.csv"}
              ELSE files
  /\ pc' = "returned"
  /\ UNCHANGED <<fn, data, params, i, trades, scanned, reads>>
  /\ UNCHANGED <<metrics, equity_curve, locals>>
  /\ UNCHANGED <<caller, grid, combo, best, runs, stdout, history, previous>>

(***************************************************************************)
(* calculate_stats (backtest_template.py), called on the trade log and     *)
(* equity curve that a strategy function returned.                         *)
(***************************************************************************)
\* The trade logs given: of each trade, 'Profit/Loss' and 'Outcome' are
\* read.
TradeLogs ==
  UNION { [1 .. n -> [Profit_Loss : {Num(p) : p \in -1 .. 1},
                      Outcome : {"tp", "sl", "partial"}]] :
          n \in 0 .. MaxTrades }

\* The equity curve that goes with a trade log.
RECURSIVE CurveOf(_, _, _)
CurveOf(trade_log, k, equity) ==
  IF k > Len(trade_log) THEN << >>
  ELSE <<[time |-> k, equity |-> Add(equity, trade_log[k].Profit_Loss)]>>
         \o CurveOf(trade_log, k + 1, Add(equity, trade_log[k].Profit_Loss))

\* hits(outcome): sum(1 for t in trade_log if t.get('Outcome') == outcome)
Template_calculate_stats ==
  /\ fn = "backtest_template.calculate_stats" /\ pc = "call"
  /\ results' =
       LET hits(trade_log, outcome) ==
             Len(SelectSeq(trade_log, LAMBDA t : t.Outcome = outcome))
       IN
       [Total_Trades |-> Len(trades),
        TP_Hits |-> hits(trades, "tp"), SL_Hits |-> hits(trades, "sl"),
        Partial_Hits |-> hits(trades, "partial"),
        Win_Rate |-> Stats_win_rate(trades),
        Average_Win_Size |-> Stats_avg_win(trades, params.starting_equity),
        Average_Loss_Size |-> Stats_avg_loss(trades, params.starting_equity),
        Max_Drawdown |-> Stats_max_drawdown(equity_curve,
                                            params.starting_equity),
        Final_Equity |-> equity_after(equity_curve, params.starting_equity)]
  /\ pc' = "returned"
  /\ UNCHANGED <<fn, data, params, i, trades, scanned, reads>>
  /\ UNCHANGED <<metrics, equity_curve, locals>>
  /\ UNCHANGED <<caller, grid, combo, best, runs, effects>>

(***************************************************************************)
(* Specification: one call of simulate_strategy or of backtest             *)
(* (grouped_volatility_backtest.py) on any series and parameters.          *)
(***************************************************************************)
InitAccount ==
  /\ fn \in {"simulate_strategy", "grouped_volatility_backtest.backtest"}
  /\ \E rows \in AccountSeries : data = load_data(rows)
  /\ params \in (IF fn = "simulate_strategy" THEN SS_ParamSets
                 ELSE GVB_ParamSets)
  /\ i = (IF fn = "simulate_strategy"
          THEN params.lookback * params.bars_per_check
          ELSE params.back_candles)
  /\ equity_curve = (IF fn = "simulate_strategy"
                     THEN <<Num(params.initial_equity)>> ELSE << >>)
  /\ trades = << >> /\ pc = "loop"
  /\ scanned = << >> /\ reads = {}
  /\ metrics = None /\ locals = None
  /\ caller = "" /\ grid = None /\ combo = None /\ best = None
  /\ results = None /\ runs = << >>
  /\ stdout = << >> /\ files = {} /\ history = << >> /\ previous = None

NextAccount ==
  \/ SS_Raise \/ SS_NoHover \/ SS_NoBreakout \/ SS_Trade \/ SS_Return
  \/ GVB_NoLarge \/ GVB_Trade \/ GVB_Return

SpecAccount == InitAccount /\ [][NextAccount]_vars

(***************************************************************************)
(* Specification: one call of hover_breakout_backtest                      *)
(* (hover_breakout_new.py) on any series and parameters, or of             *)
(* calculate_stats (backtest_template.py) on any trade log.                *)
(***************************************************************************)
InitStats ==
  /\ fn \in {"hover_breakout_new.hover_breakout_backtest",
             "backtest_template.calculate_stats"}
  /\ IF fn = "backtest_template.calculate_stats"
     THEN /\ data = None /\ trades \in TradeLogs
          /\ params = [starting_equity |-> default_balance]
          /\ equity_curve = CurveOf(trades, 1, Num(default_balance))
          /\ i = 0 /\ pc = "call"
     ELSE /\ \E rows \in StatsSeries : data = load_data(rows)
          /\ params \in HBN_ParamSets
          /\ i = params.back_candles
          /\ equity_curve = << >>
          /\ trades = << >> /\ pc = "loop"
  /\ scanned = << >> /\ reads = {}
  /\ metrics = None /\ locals = None
  /\ caller = "" /\ grid = None /\ combo = None /\ best = None
  /\ results = None /\ runs = << >>
  /\ stdout = << >> /\ files = {} /\ history = << >> /\ previous = None

NextStats ==
  \/ HBN_NoHover \/ HBN_NoBreakout \/ HBN_Trade \/ HBN_Return
  \/ Template_calculate_stats

SpecStats == InitStats /\ [][NextStats]_vars

(***************************************************************************)
(* Claims about the backtests that keep an account.                        *)
(***************************************************************************)
\* C23 (as claimed): in simulate_strategy (hover_breakout_test.py) and in
\* backtest (grouped_volatility_backtest.py), called to hold a trade for at
\* least one bar, the scan for stop and target starts at the bar after the
\* entry bar, so that every trade closes at a bar strictly later than the
\* bar it was opened at.
C23_ExitBarAfterEntryBar ==
  (\/ fn = "simulate_strategy" /\ params.hold_period >= 1
   \/ fn = "grouped_volatility_backtest.backtest"
        /\ params.future_candles >= 1) =>
    \A k \in 1 .. Len(trades) : trades[k].Time_Close > trades[k].Time_Open

\* C30 (as claimed): the 'Average Loss Size' that hover_breakout_backtest
\* (hover_breakout_new.py) and calculate_stats (backtest_template.py)
\* return is a number, never nan, and it is 0 when no trade of the log has
\* a Profit/Loss below 0.
C30_AverageLossIsANumber ==
  (fn \in {"hover_breakout_new.hover_breakout_backtest",
           "backtest_template.calculate_stats"} /\ pc = "returned") =>
    /\ results.Average_Loss_Size # NaN
    /\ (\A k \in 1 .. Len(trades) : ~Less(trades[k].Profit_Loss, Num(0)))
         => results.Average_Loss_Size = Num(0)

(***************************************************************************)
(* Claims about analyze_trades.                                            *)
(***************************************************************************)
\* C24 (as claimed): for every list of trade results, the wins and the
\* losses that analyze_trades returns add up to the number of trades, and
\* so does the 'Total trades' that main prints; a result of exactly 0 is
\* counted as a loss.
C24_WinsPlusLossesIsTotal ==
  (fn = "strategy_test.analyze_trades" /\ pc = "returned") =>
    /\ metrics.wins + metrics.losses = Len(trades)
    /\ stdout[Len(stdout)].Total_trades = Len(trades)
    /\ metrics.losses = Cardinality(Lost)

(***************************************************************************)
(* main (hover_param_optimizer.py).  Its imports load_data, backtest,      *)
(* compute_metrics and simulate_equity are the functions of these names of *)
(* hover_strategy_test.py.  The lists of the grid come from argparse with  *)
(* nargs="+", so that each holds at least one value.                       *)
(***************************************************************************)
\* args: the five lists of the grid, spread, risk_pct and pdf.
HPO_Grids ==
  { [keys |-> <<"lookback", "hover_range", "tp", "sl", "max_hold">>,
     values |-> <<a, b, <<1>>, <<MaxSl>>, <<1>>>>,
     spread |-> f, risk_pct |-> Frac(1, 100),
     pdf |-> "hover_optimize_report.pdf"] :
      a \in ValueLists(1 .. MaxLookback), b \in ValueLists(0 .. MaxHover),
      f \in {0, SPREAD} }

\* lb, hr, tp_val, sl_val, mh = combo;
\* trades = backtest(df, lb, hr, tp_val, sl_val, mh, args.spread)
HPO_Call ==
  /\ caller = "hover_param_optimizer.main" /\ pc = "main_loop"
  /\ combo # << >>
  /\ params' = [lookback |-> combo_values(combo)[1],
                hover_range |-> combo_values(combo)[2],
                tp |-> combo_values(combo)[3], sl |-> combo_values(combo)[4],
                max_hold |-> combo_values(combo)[5],
                spread |-> grid.spread]
  /\ runs' = Append(runs, combo_values(combo))
  /\ fn' = "backtest" /\ pc' = "loop"
  /\ i' = params'.lookback /\ trades' = << >>
  /\ scanned' = << >> /\ reads' = {}
  /\ UNCHANGED CallFrame

\* metrics = compute_metrics(trades); curve = simulate_equity(trades,
\* args.risk_pct, 10000); final_balance = curve[-1]; the best is replaced
\* if best_balance is None or final_balance > best_balance; the next combo.
HPO_Collect ==
  /\ caller = "hover_param_optimizer.main"
  /\ fn = "backtest" /\ pc = "returned"
  /\ metrics' = HST_compute_metrics(trades, default_balance)
  /\ locals' = HST_locals(trades, default_balance)
  /\ equity_curve' = simulate_equity(trades, grid.risk_pct, default_balance)
  /\ best' = IF \/ best = None
                \/ Less(best.balance, equity_curve'[Len(equity_curve')])
             THEN [params |-> [lookback |-> params.lookback,
                               hover_range |-> params.hover_range,
                               tp |-> params.tp, sl |-> params.sl,
                               max_hold |-> params.max_hold],
                   metrics |-> metrics', curve |-> equity_curve',
                   balance |-> equity_curve'[Len(equity_curve')]]
             ELSE best
  /\ combo' = product_next(combo, Len(combo))
  /\ fn' = "main" /\ pc' = "main_loop"
  /\ history' = Append(history, [params |-> params, trades |-> trades,
                                  metrics |-> metrics'])
  /\ UNCHANGED <<data, params, i, trades, scanned, reads>>
  /\ UNCHANGED <<caller, grid, results, runs>>
  /\ UNCHANGED <<stdout, files, previous>>

\* After the loop: if best_params is None, the message and return; else
\* the best parameters, metrics and balance are printed and
\* create_pdf(best_metrics, best_curve, args.pdf) writes the report.
HPO_Report ==
  /\ caller = "hover_param_optimizer.main" /\ pc = "main_loop"
  /\ combo = << >>
  /\ IF best = None
     THEN /\ stdout' = Append(stdout,
                              "No trades generated with given parameters")
          /\ files' = files
     ELSE /\ stdout' = stdout \o <<"Best Parameters:", best.params,
                                   "Best Metrics:", best.metrics,
                                   [Final_balance |-> round2(best.balance)],
                                   "PDF report saved to " \o grid.pdf>>
          /\ files' = files \cup {grid.pdf}
  /\ pc' = "returned_main"
  /\ UNCHANGED <<fn, data, params, i, trades, scanned, reads>>
  /\ UNCHANGED <<metrics, equity_curve, locals>>
  /\ UNCHANGED <<caller, grid, combo, best, results, runs>>
  /\ UNCHANGED <<history, previous>>

(***************************************************************************)
(* Specification: one execution of main (hover_param_optimizer.py) on any  *)
(* series and grid.                                                        *)
(***************************************************************************)
InitSearch ==
  /\ caller = "hover_param_optimizer.main"
  /\ \E rows \in GridSeries : data = load_data(rows)
  /\ grid \in HPO_Grids
  /\ combo = product_first
  /\ fn = "main" /\ pc = "main_loop"
  /\ params = << >> /\ i = 0 /\ trades = << >>
  /\ scanned = << >> /\ reads = {}
  /\ metrics = None /\ equity_curve = None /\ locals = None
  /\ best = None /\ results = << >> /\ runs = << >>
  /\ stdout = << >> /\ files = {} /\ history = << >> /\ previous = None

NextSearch ==
  \/ HPO_Call \/ HPO_Collect \/ HPO_Report
  \/ BT_NoHover \/ BT_NoBreakout \/ BT_Trade \/ BT_Return

SpecSearch == InitSearch /\ [][NextSearch]_vars

\* C25 (as claimed): when no combination of the grid makes a trade, main
\* of hover_param_optimizer.py prints 'No trades generated with given
\* parameters' and returns: it prints no best parameters and creates no
\* PDF report.
C25_NoTradesMessage ==
  (/\ caller = "hover_param_optimizer.main" /\ pc = "returned_main"
   /\ \A k \in 1 .. Len(history) : history[k].trades = << >>) =>
    /\ stdout = <<"No trades generated with given parameters">>
    /\ files = {}

(***************************************************************************)
(* Further claims about the metric functions.                              *)
(***************************************************************************)
\* C27: for a trade list that is not empty, the expectancy that
\* compute_metrics returns is the average pnl of a trade: expectancy times
\* total_trades is net_profit, in exact arithmetic.
C27_ExpectancyIsAveragePnl ==
  (MetricsReturned /\ trades # << >>) =>
    /\ Mul(metrics.expectancy, Num(metrics.total_trades))
         = Num(metrics.net_profit)
    /\ metrics.net_profit = PnlOf(1 .. Len(trades))

\* C27 witness: metrics returned for a list with wins and losses whose
\* average pnl is not a whole number.
C27_Witness ==
  /\ MetricsReturned
  /\ Won # {} /\ Lost # {}
  /\ metrics.expectancy.d > 1

\* C29: for a trade list that is not empty and whose trades all have
\* pnl > 0, compute_metrics returns kelly = 0, and the curve that main
\* (Hover_Breakout_Test.py) then simulates with it stays at the starting
\* balance, which is the final_balance it stores.
C29_AllWinsStakeNothing ==
  (trades # << >> /\ \A k \in 1 .. Len(trades) : trades[k].pnl > 0) =>
    /\ (MetricsReturned \/ (fn = "main" /\ pc \in {"metrics", "returned"}))
         => metrics.kelly = Num(0)
    /\ (fn = "main" /\ pc = "returned") =>
         /\ Len(equity_curve) = Len(trades) + 1
         /\ \A k \in 1 .. Len(equity_curve) :
              equity_curve[k] = Num(default_balance)
         /\ metrics.final_balance = Num(default_balance)

\* C29 witness: main has returned for a list of several winning trades.
C29_Witness ==
  /\ fn = "main" /\ pc = "returned"
  /\ Len(trades) >= 2
  /\ \A k \in 1 .. Len(trades) : trades[k].pnl > 0

(***************************************************************************)
(* Claims about the pnl of the trades of run_backtest and backtest.        *)
(***************************************************************************)
\* How the trade t left the market: "tp" on the target, "sl" on the stop,
\* "time" at the close of the bar max_hold after the entry.
ExitKind(t) ==
  IF fn = "run_backtest" THEN Exit(t.entry_bar, t.direction).kind
  ELSE LET e == BT_Entry(t.entry_bar, t.direction)
           s == BT_Scan(t.entry_bar + 1, t.entry_bar + params.max_hold + 1,
                        t.direction, e.target, e.stop)
       IN  IF s.kind = "none" THEN "time" ELSE s.kind

\* C28: called with tp > 0, sl > 0, spread >= 0 and max_hold >= 1 on bars
\* with low <= close <= high, run_backtest and backtest
\* (hover_strategy_test.py) return trades with
\* -(sl + spread/2) <= pnl <= tp - spread/2; the pnl is tp - spread/2
\* exactly when the trade left on the target, -(sl + spread/2) exactly when
\* it left on the stop, and strictly between the two when it left on time.
C28_PnlBetweenStopAndTarget ==
  (/\ fn \in {"run_backtest", "backtest"}
   /\ params.tp > 0 /\ params.sl > 0 /\ params.spread >= 0
   /\ params.max_hold >= 1) =>
    \A k \in 1 .. Len(trades) :
      LET t == trades[k]
          most == 2 * params.tp - params.spread
          least == -(2 * params.sl + params.spread)
      IN  /\ least <= 2 * t.pnl /\ 2 * t.pnl <= most
          /\ 2 * t.pnl = most <=> ExitKind(t) = "tp"
          /\ 2 * t.pnl = least <=> ExitKind(t) = "sl"
          /\ ExitKind(t) = "time" => least < 2 * t.pnl /\ 2 * t.pnl < most

\* C28 witness: run_backtest, called to hold a trade for at least one bar
\* with a spread, has returned a trade that left on time with a pnl that is
\* not zero.
C28_Witness ==
  /\ fn = "run_backtest" /\ pc = "returned"
  /\ params.max_hold >= 1 /\ params.spread > 0
  /\ \E k \in 1 .. Len(trades) :
       ExitKind(trades[k]) = "time" /\ trades[k].pnl # 0

====
